---------------------------- MODULE Spec2Model ----------------------------
(***************************************************************************)
(* Coyan: static fault trees, their Tseitin encoding, the GALILEO          *)
(* normalizer, the Dutuit-Rauzy modularizer and the solve driver.          *)
(*                                                                         *)
(* A NodeId is a natural number starting at 0 (nodes.rs:8-13); node i is   *)
(* stored at position i+1 of the sequence `nodes` and is written as the    *)
(* CNF variable i+1 (nodes.rs:15-19).  Probabilities are exact rationals   *)
(* <<numerator, denominator>>.                                             *)
(***************************************************************************)
EXTENDS Integers, Sequences, FiniteSets, TLC

VARIABLES
    pc,          \* position of the run
    ft,          \* the FaultTree: [nodes, root_id, node_counter, negate_or]
    cnf,         \* the Formula apply_tseitin returned (a sequence of clauses)
    tep,         \* the value the last solve returned
    lines,       \* the declarations of the input file, in order
    config,      \* [simplify, negate_or]: the flags of the run
    lookup_table,\* the normalizer's map from names to NodeIds
    root_name,   \* the root name read_file returned
    dfs_nodes,   \* the DFSNode of every node after get_modules
    time,        \* the clock of the first DFS
    module_ids,  \* the list get_modules returned
    solves,      \* one record per solve the driver performed, in order
    mod_tep,     \* the value of the solve of the residual tree
    solver,      \* the backend whose run_model is running
    stderr,      \* the bytes the solver process wrote to stderr
    outcome,     \* what run_model returned
    info,        \* what get_info returned
    sub,         \* the tree subtree_with_root (or clone) returned
    sub_root,    \* the NodeId subtree_with_root was called with
    tmp_ft_file, \* the random file name of a file-based run_model
    tmp_files,   \* the files that exist in the solver's tmpdir
    duration,    \* the whole seconds compute_joint_tree measured for htb
    remaining_s, \* the timeout compute_joint_tree left for dmc, a u64
    workers,     \* the par_iter workers of importance_measures
    measures,    \* the map importance_measures returned
    weights,     \* the weight lines of the dumped CNF, in their order
    failing      \* the modules whose solve fails (timeout or hard error)

vars == <<pc, ft, cnf, tep, lines, config, lookup_table, root_name,
          dfs_nodes, time, module_ids, solves, mod_tep,
          solver, stderr, outcome, info, sub, sub_root,
          tmp_ft_file, tmp_files, duration, remaining_s, workers, measures, weights, failing>>

\* the state of one call of run_model, and the results of get_info and of
\* subtree_with_root
runvars == <<solver, stderr, outcome, info, sub, sub_root,
          tmp_ft_file, tmp_files, duration, remaining_s, workers, measures, weights, failing>>

InitRunVars ==
    /\ solver = ""
    /\ stderr = <<>>
    /\ outcome = [kind |-> "none", msg |-> ""]
    /\ info = <<0, 0, 0>>
    /\ sub = [nodes |-> <<>>, root_id |-> 0, node_counter |-> 0, negate_or |-> FALSE]
    /\ sub_root = 0
    /\ tmp_ft_file = ""
    /\ tmp_files = {}
    /\ duration = 0
    /\ remaining_s = <<0, 0, 0, 0>>
    /\ workers = <<>>
    /\ measures = [x \in {} |-> 0]
    /\ weights = <<>>
    /\ failing = {}

InitDrvVars ==
    /\ dfs_nodes = <<>>
    /\ time = 0
    /\ module_ids = <<>>
    /\ solves = <<>>
    /\ mod_tep = <<0, 1>>

\* the state of the modularizer and of the solver driver
drvvars == <<dfs_nodes, time, module_ids, solves, mod_tep>>

(***************************************************************************)
(* Bounds of the model.                                                    *)
(***************************************************************************)
\* number of nodes of the trees the encoder is run on
MaxNodes == 4
\* largest number of children of a gate in the enumerated trees
MaxArity == 3

(***************************************************************************)
(* Generic helpers.                                                        *)
(***************************************************************************)
Range(s) == { s[i] : i \in 1..Len(s) }

RECURSIVE Flatten(_)
Flatten(ss) == IF ss = <<>> THEN <<>> ELSE Head(ss) \o Flatten(Tail(ss))

RECURSIVE GCD(_, _)
GCD(a, b) == IF b = 0 THEN a ELSE GCD(b, a % b)

\* exact rationals <<n, d>> with d > 0, kept in lowest terms
RNorm(n, d) == LET g == GCD(IF n < 0 THEN -n ELSE n, d)
               IN  IF g = 0 THEN <<0, 1>> ELSE <<n \div g, d \div g>>
RZero == <<0, 1>>
ROne == <<1, 1>>
RAdd(a, b) == RNorm(a[1] * b[2] + b[1] * a[2], a[2] * b[2])
RSub(a, b) == RNorm(a[1] * b[2] - b[1] * a[2], a[2] * b[2])
RMul(a, b) == RNorm(a[1] * b[1], a[2] * b[2])

RECURSIVE RSum(_, _)
\* sum of f[x] over the finite set S
RSum(S, f) == IF S = {} THEN RZero
              ELSE LET x == CHOOSE y \in S : TRUE
                   IN  RAdd(f[x], RSum(S \ {x}, f))

(***************************************************************************)
(* Node (nodes.rs:124-132, and the NodeType payloads that                  *)
(* fault_tree.rs and fault_tree_normalizer.rs construct).                  *)
(***************************************************************************)
Node(kind, name, op, k, n, args, argnames, method, value) ==
    [kind |-> kind, name |-> name, op |-> op, k |-> k, n |-> n, args |-> args,
     argnames |-> argnames, method |-> method, value |-> value]

BasicEvent(name, method, value) ==
    Node("be", name, "", 0, 0, <<>>, <<>>, method, value)
Not(arg) == Node("not", "", "", 0, 0, <<arg>>, <<>>, "", RZero)
And(args) == Node("and", "", "", 0, 0, args, <<>>, "", RZero)
Or(args) == Node("or", "", "", 0, 0, args, <<>>, "", RZero)
Xor(args) == Node("xor", "", "", 0, 0, args, <<>>, "", RZero)
Vot(k, args) == Node("vot", "", "", k, 0, args, <<>>, "", RZero)
\* op is "and", "or", "xor", "not" or "of"; for "of" the op text is <k>of<n>
PlaceHolder(name, op, k, n, argnames) ==
    Node("ph", name, op, k, n, <<>>, argnames, "", RZero)

is_or(node) == node.kind = "or"
is_gate(node) == node.kind \in {"not", "and", "or", "xor", "vot"}
\* children() panics on a placeholder; callers below never pass one
children(node) == node.args

\* FaultTree accessors: NodeId i is position i+1
NodeAt(t, nid) == t.nodes[nid + 1]
NodeIds(t) == 0 .. (Len(t.nodes) - 1)

(***************************************************************************)
(* Formula<NodeId> restricted to what the encoder builds: a literal is a   *)
(* non-zero integer, Atom(i) = i+1 and Not(Atom(i)) = -(i+1); a clause     *)
(* (Formula::Or) is a sequence of literals; Formula::And is a sequence of  *)
(* clauses.                                                                *)
(***************************************************************************)
Atom(nid) == nid + 1
negate(lit) == 0 - lit

tseitin_and(self_id, args) ==
    [i \in 1..Len(args) |-> <<negate(Atom(self_id)), Atom(args[i])>>]
    \o << [i \in 1..Len(args) |-> negate(Atom(args[i]))] \o <<Atom(self_id)>> >>

\* tseitin_or without its long clause (-g V c1 V ... V cn)
tseitin_or_short_only(self_id, args) ==
    [i \in 1..Len(args) |-> <<Atom(self_id), negate(Atom(args[i]))>>]

tseitin_or(self_id, args) ==
    [i \in 1..Len(args) |-> <<Atom(self_id), negate(Atom(args[i]))>>]
    \o << [i \in 1..Len(args) |-> Atom(args[i])] \o <<negate(Atom(self_id))>> >>

tseitin_xor(self_id, args) ==
    LET clause_g_neg == [i \in 1..Len(args) |-> Atom(args[i])]
                        \o <<negate(Atom(self_id))>>
        clause_all_neg == [i \in 1..Len(args) |-> negate(Atom(args[i]))]
                          \o <<negate(Atom(self_id))>>
        \* the i-th of the other clauses: all children and g, child i negated
        other(i) == [j \in 1..Len(args) |->
                        IF j = i THEN negate(Atom(args[j])) ELSE Atom(args[j])]
                    \o <<Atom(self_id)>>
    IN  [i \in 1..Len(args) |-> other(i)] \o <<clause_g_neg, clause_all_neg>>

tseitin_not(self_id, arg) ==
    << <<Atom(self_id), Atom(arg)>>, <<negate(Atom(self_id)), negate(Atom(arg))>> >>

\* placeholders and unexpanded Vot gates panic
tseitin_panics(node) == node.kind \in {"ph", "vot"}

\* Formula::True (a basic event) is the empty sequence of clauses
tseitin_transformation(node, self_id) ==
    CASE node.kind = "be" -> <<>>
      [] node.kind = "not" -> tseitin_not(self_id, node.args[1])
      [] node.kind = "and" -> tseitin_and(self_id, node.args)
      [] node.kind = "or" -> tseitin_or(self_id, node.args)
      [] node.kind = "xor" -> tseitin_xor(self_id, node.args)
      [] OTHER -> <<>>

\* the nodes' clauses taken from the last node to the first
apply_tseitin_reversed(t) ==
    LET unit == IF is_or(NodeAt(t, t.root_id)) /\ t.negate_or
                THEN <<negate(Atom(t.root_id))>>
                ELSE <<Atom(t.root_id)>>
    IN  <<unit>> \o Flatten([i \in 1..Len(t.nodes) |->
                                tseitin_transformation(t.nodes[Len(t.nodes) + 1 - i],
                                                       Len(t.nodes) - i)])

\* the unit clause of the root comes first, then every node's clauses in
\* NodeId order
apply_tseitin(t) ==
    LET unit == IF is_or(NodeAt(t, t.root_id)) /\ t.negate_or
                THEN <<negate(Atom(t.root_id))>>
                ELSE <<Atom(t.root_id)>>
    IN  <<unit>> \o Flatten([i \in 1..Len(t.nodes) |->
                                tseitin_transformation(t.nodes[i], i - 1)])

apply_tseitin_panics(t) == \E i \in 1..Len(t.nodes) : tseitin_panics(t.nodes[i])

get_count(t) == t.node_counter

\* unreliability of a basic event: Discrete(p) -> p.
unreliability(node) == node.value

\* get_weights: the weight of every literal of variables 1..n_vars; a gate
\* weighs 1 on both sides, a basic event p and 1 - p
get_weights(t) ==
    [l \in { v : v \in 1..get_count(t) } \cup { 0 - v : v \in 1..get_count(t) } |->
        LET v == IF l > 0 THEN l ELSE 0 - l
            node == t.nodes[v]
        IN  IF node.kind = "be"
            THEN (IF l > 0 THEN unreliability(node)
                           ELSE RSub(ROne, unreliability(node)))
            ELSE ROne]

(***************************************************************************)
(* The exact weighted model counter the driver delegates to: the sum, over *)
(* the assignments of variables 1..n_vars that satisfy every clause, of    *)
(* the product of the weights of the literals the assignment makes true.   *)
(***************************************************************************)
LitTrue(a, l) == IF l > 0 THEN a[l] ELSE ~a[0 - l]
ClauseSat(a, c) == \E i \in 1..Len(c) : LitTrue(a, c[i])
CnfSat(a, f) == \A i \in 1..Len(f) : ClauseSat(a, f[i])
Assignments(n) == [1..n -> BOOLEAN]
Models(f, n) == { a \in Assignments(n) : CnfSat(a, f) }

RECURSIVE AssignWeight(_, _, _)
AssignWeight(a, w, v) ==
    IF v = 0 THEN ROne
    ELSE RMul(w[IF a[v] THEN v ELSE 0 - v], AssignWeight(a, w, v - 1))

WMC(f, w, n) ==
    LET M == Models(f, n)
    IN  RSum(M, [a \in M |-> AssignWeight(a, w, n)])

(***************************************************************************)
(* Reference semantics of a fault tree: the Boolean value of a node under  *)
(* an assignment b of the variables (only the basic events' values are     *)
(* read), and the probability that the root is true.                       *)
(***************************************************************************)
Count(S) == Cardinality(S)

GateValue(node, val) ==
    LET n == Len(node.args)
        trues == Count({ i \in 1..n : val[i] })
    IN  CASE node.kind = "and" -> trues = n
          [] node.kind = "or" -> trues > 0
          [] node.kind = "xor" -> trues % 2 = 1
          [] node.kind = "not" -> trues = 0
          [] node.kind = "vot" -> trues >= node.k
          [] OTHER -> FALSE

RECURSIVE Eval(_, _, _)
Eval(t, nid, b) ==
    LET node == NodeAt(t, nid)
    IN  IF node.kind = "be" THEN b[nid + 1]
        ELSE GateValue(node, [i \in 1..Len(node.args) |-> Eval(t, node.args[i], b)])

\* the assignment of all variables that b's basic-event values determine
Extend(t, b) == [v \in 1..Len(t.nodes) |-> Eval(t, v - 1, b)]

BEs(t) == { i \in NodeIds(t) : NodeAt(t, i).kind = "be" }
\* assignments that give every variable of a gate the value FALSE
BEAssignments(t) ==
    { [v \in 1..Len(t.nodes) |-> IF (v - 1) \in BEs(t) THEN f[v - 1] ELSE FALSE] :
        f \in [BEs(t) -> BOOLEAN] }

RECURSIVE BEWeight(_, _, _)
BEWeight(t, b, v) ==
    IF v = 0 THEN ROne
    ELSE LET node == t.nodes[v]
             rest == BEWeight(t, b, v - 1)
         IN  IF node.kind # "be" THEN rest
             ELSE RMul(IF b[v] THEN unreliability(node)
                               ELSE RSub(ROne, unreliability(node)), rest)

\* Pr[root = true]
TEP(t) ==
    LET S == { b \in BEAssignments(t) : Eval(t, t.root_id, b) }
    IN  RSum(S, [b \in S |-> BEWeight(t, b, Len(t.nodes))])

(***************************************************************************)
(* Trees the encoder is run on: NodeIds 0..N-1, every child id larger than *)
(* its parent's (so the graph is acyclic), children listed in increasing   *)
(* order, gates And/Or/Xor with 1..MaxArity children and Not with one.     *)
(* The root is the first node or, leaving node 0 unreachable, the second.  *)
(***************************************************************************)
BENames == <<"a", "b", "c", "d", "e", "f", "g", "h">>
\* the probability given to the basic event declared as node i
BEProb(i) == <<1, i + 2>>

RECURSIVE SortedSeq(_)
SortedSeq(S) == IF S = {} THEN <<>>
                ELSE LET m == CHOOSE x \in S : \A y \in S : x <= y
                     IN  <<m>> \o SortedSeq(S \ {m})

SortedSeqs(lo, hi) ==
    { SortedSeq(S) : S \in { T \in SUBSET (lo..hi) : Count(T) \in 1..MaxArity } }

EncNodeChoices(i, N) ==
    { BasicEvent(BENames[i + 1], "prob", BEProb(i)) }
    \cup { And(s) : s \in SortedSeqs(i + 1, N - 1) }
    \cup { Or(s) : s \in SortedSeqs(i + 1, N - 1) }
    \cup { Xor(s) : s \in SortedSeqs(i + 1, N - 1) }
    \cup { Not(c) : c \in (i + 1)..(N - 1) }

RECURSIVE EncNodeSeqs(_, _)
EncNodeSeqs(i, N) ==
    IF i = N THEN { <<>> }
    ELSE { <<n>> \o rest : n \in EncNodeChoices(i, N), rest \in EncNodeSeqs(i + 1, N) }

FaultTree(nodes, root_id, negate_or) ==
    [nodes |-> nodes, root_id |-> root_id, node_counter |-> Len(nodes),
     negate_or |-> negate_or]

EncTrees ==
    { FaultTree(ns, r, neg) :
        ns \in EncNodeSeqs(0, MaxNodes), r \in {0, 1}, neg \in BOOLEAN }

EmptyTree == FaultTree(<<>>, 0, FALSE)

(***************************************************************************)
(* The encoder: a tree is translated (apply_tseitin, as implicit_formula   *)
(* does for dump_cnf) and the CNF with its weights is counted.             *)
(***************************************************************************)
InitEnc ==
    /\ pc = "tree"
    /\ ft \in EncTrees
    /\ cnf = <<>>
    /\ tep = RZero
    /\ lines = <<>>
    /\ config = [simplify |-> FALSE, negate_or |-> ft.negate_or]
    /\ lookup_table = <<>>
    /\ root_name = ""
    /\ InitDrvVars
    /\ InitRunVars

ApplyTseitin ==
    /\ pc = "tree"
    /\ ~apply_tseitin_panics(ft)
    /\ cnf' = apply_tseitin(ft)
    /\ pc' = "cnf"
    /\ UNCHANGED <<ft, tep, lines, config, lookup_table, root_name>>
    /\ UNCHANGED drvvars
    /\ UNCHANGED runvars

CountModels ==
    /\ pc = "cnf"
    /\ tep' = WMC(cnf, get_weights(ft), get_count(ft))
    /\ pc' = "counted"
    /\ UNCHANGED <<ft, cnf, lines, config, lookup_table, root_name>>
    /\ UNCHANGED drvvars
    /\ UNCHANGED runvars

NextEnc == ApplyTseitin \/ CountModels

SpecEnc == InitEnc /\ [][NextEnc]_vars

(***************************************************************************)
(* Claims about the encoder.                                               *)
(***************************************************************************)
GateIds(t, kinds) == { g \in NodeIds(t) : NodeAt(t, g).kind \in kinds }

\* the clauses of gate g are satisfied by exactly the assignments in which
\* the variable of g has the value of its gate over the children's variables
EncodesGate(t, g) ==
    LET node == NodeAt(t, g)
        f == tseitin_transformation(node, g)
    IN  \A a \in Assignments(Len(t.nodes)) :
            CnfSat(a, f) <=>
                (a[g + 1] = GateValue(node, [i \in 1..Len(node.args) |->
                                                a[node.args[i] + 1]]))

\* C2: for every And, Or (n >= 1 children) and Not gate, the clauses of
\* tseitin_transformation hold exactly when g = OP(children).
C2_AndOrNotEquivalence ==
    pc # "tree" => \A g \in GateIds(ft, {"and", "or", "not"}) : EncodesGate(ft, g)

C2_Witness ==
    /\ pc = "cnf"
    /\ \E g \in GateIds(ft, {"and"}) : Len(NodeAt(ft, g).args) = 3
    /\ \E g \in GateIds(ft, {"or"}) : Len(NodeAt(ft, g).args) = 2
    /\ GateIds(ft, {"not"}) # {}

\* C3: for every Xor gate with n >= 2 children, the n+2 clauses of
\* tseitin_xor hold exactly when g is the odd parity of the children.
C3_XorParity ==
    pc # "tree" =>
        \A g \in GateIds(ft, {"xor"}) :
            Len(NodeAt(ft, g).args) >= 2 =>
                /\ Len(tseitin_transformation(NodeAt(ft, g), g))
                       = Len(NodeAt(ft, g).args) + 2
                /\ EncodesGate(ft, g)

\* C1: for trees of And, Or, Not and Xor gates, under every assignment of
\* the basic events the gate clauses have exactly one model, the one giving
\* each gate its Boolean value; hence the weighted model count of the CNF
\* with the unit clause root is the TEP.
XorArities(t) == { Len(NodeAt(t, g).args) : g \in GateIds(t, {"xor"}) }

C1_TseitinCountsTEP ==
    (/\ pc = "counted"
     /\ Head(cnf) = <<Atom(ft.root_id)>>
     /\ \A n \in XorArities(ft) : n >= 2) =>
        /\ \A b \in BEAssignments(ft) :
              { a \in Models(Tail(cnf), Len(ft.nodes)) :
                    \A v \in BEs(ft) : a[v + 1] = b[v + 1] } = { Extend(ft, b) }
        /\ tep = TEP(ft)

(***************************************************************************)
(* FaultTreeNormalizer.  A line of the input file after tokenizing:        *)
(*   toplevel <name>             [t |-> "toplevel", name]                  *)
(*   <name> <op> <args...>       [t |-> "gate", name, op, k, n, args]      *)
(*   <name> <method>=<value>     [t |-> "be", name, method, value]         *)
(* op is "and", "or", "xor", "not", or "of" for the text <k>of<n>.         *)
(* The normalizer state n is [lookup_table, nodes, node_counter,           *)
(* root_name, replace_mapper, status]; status "panic" is a fatal error and *)
(* "diverge" a loop that never ends.                                       *)
(***************************************************************************)
Line(t, name, op, k, n, args, method, value) ==
    [t |-> t, name |-> name, op |-> op, k |-> k, n |-> n, args |-> args,
     method |-> method, value |-> value]
TopLine(name) == Line("toplevel", name, "", 0, 0, <<>>, "", RZero)
GateLine(name, op, args) == Line("gate", name, op, 0, 0, args, "", RZero)
VotLine(name, k, n, args) == Line("gate", name, "of", k, n, args, "", RZero)
BELine(name, value) == Line("be", name, "", 0, 0, <<>>, "prob", value)

EmptyMap == [x \in {} |-> 0]
Has(m, key) == key \in DOMAIN m
Insert(m, key, v) == [x \in (DOMAIN m) \cup {key} |-> IF x = key THEN v ELSE m[x]]

new ==
    [lookup_table |-> EmptyMap, nodes |-> <<>>, node_counter |-> 0,
     root_name |-> "System", replace_mapper |-> EmptyMap, status |-> "ok"]

Panic(n) == [n EXCEPT !.status = "panic"]

\* new_id then add_node: the node gets the counter's value as its NodeId and
\* is inserted at that index, which is the end of the vector
add_new_node(n, name, node) ==
    [n EXCEPT !.lookup_table = Insert(n.lookup_table, name, n.node_counter),
              !.nodes = Append(n.nodes, node),
              !.node_counter = n.node_counter + 1]

add_placeholder(n, l) ==
    add_new_node(n, l.name, PlaceHolder(l.name, l.op, l.k, l.n, l.args))

\* the body of read_file's loop for one line
read_line(n, l, simplify) ==
    IF n.status # "ok" THEN n
    ELSE CASE l.t = "toplevel" -> [n EXCEPT !.root_name = l.name]
           [] l.t = "gate" /\ l.op = "not" ->
                IF Has(n.lookup_table, l.name) THEN Panic(n)
                ELSE add_placeholder(n, l)
           [] l.t = "gate" /\ l.op \in {"csp", "wsp", "hsp", "pand", "seq", "fdep"} ->
                Panic(n)
           [] l.t = "gate" /\ l.op \in {"or", "and", "xor", "of"} ->
                IF Has(n.lookup_table, l.name) THEN Panic(n)
                ELSE IF simplify /\ Len(l.args) = 1
                     THEN [n EXCEPT
                             !.replace_mapper = Insert(n.replace_mapper, l.name, l.args[1]),
                             !.root_name = IF n.root_name = l.name THEN l.args[1]
                                           ELSE n.root_name]
                     ELSE add_placeholder(n, l)
           [] l.t = "be" ->
                IF Has(n.lookup_table, l.name) THEN Panic(n)
                ELSE add_new_node(n, l.name, BasicEvent(l.name, l.method, l.value))
           [] OTHER -> n

RECURSIVE read_lines(_, _, _)
read_lines(n, ls, simplify) ==
    IF ls = <<>> THEN n
    ELSE read_lines(read_line(n, Head(ls), simplify), Tail(ls), simplify)

\* the while loop of preprocess_placeholders: follow the mapper from v until
\* a name that is not a key; fuel counts the steps left before the walk must
\* have entered a cycle
RECURSIVE chase(_, _, _)
chase(mapper, v, fuel) ==
    IF ~Has(mapper, v) THEN v
    ELSE IF fuel = 0 THEN "(diverge)"
    ELSE chase(mapper, mapper[v], fuel - 1)

corrected_mapper(mapper) ==
    [key \in DOMAIN mapper |-> chase(mapper, mapper[key], Count(DOMAIN mapper))]

preprocess_placeholders(n, mapper) ==
    LET corrected == corrected_mapper(mapper)
    IN  IF \E key \in DOMAIN corrected : corrected[key] = "(diverge)"
        THEN [n EXCEPT !.status = "diverge"]
        ELSE [n EXCEPT !.nodes =
                [i \in 1..Len(n.nodes) |->
                    IF n.nodes[i].kind = "ph"
                    THEN [n.nodes[i] EXCEPT !.argnames =
                            [j \in 1..Len(n.nodes[i].argnames) |->
                                IF Has(corrected, n.nodes[i].argnames[j])
                                THEN corrected[n.nodes[i].argnames[j]]
                                ELSE n.nodes[i].argnames[j]]]
                    ELSE n.nodes[i]]]

read_file(ls, simplify) ==
    LET n == read_lines(new, ls, simplify)
    IN  IF n.status = "ok" /\ simplify
        THEN preprocess_placeholders(n, n.replace_mapper)
        ELSE n

\* only the first k-element subsequence
combinations_first(s, k) ==
    IF Len(s) < k THEN <<>> ELSE << SubSeq(s, 1, k) >>

\* itertools combinations(k): the k-element subsequences in lexicographic
\* order of their positions
RECURSIVE combinations(_, _)
combinations(s, k) ==
    IF k = 0 THEN << <<>> >>
    ELSE IF Len(s) < k THEN <<>>
    ELSE LET with == combinations(Tail(s), k - 1)
         IN  [i \in 1..Len(with) |-> <<Head(s)>> \o with[i]]
             \o combinations(Tail(s), k)

aux_name(aux_gid) == "aux_gate_" \o ToString(aux_gid + 1)

RECURSIVE add_aux_gates(_, _, _)
\* the for loop over the subsets: one auxiliary Or gate [elem] ++ subset each;
\* r is [n, aux_ids]
add_aux_gates(r, elem, subsets) ==
    IF subsets = <<>> THEN r
    ELSE LET n == r.n
             new_args == <<n.lookup_table[elem]>>
                         \o [i \in 1..Len(Head(subsets)) |->
                                n.lookup_table[Head(subsets)[i]]]
             aux_gid == n.node_counter
         IN  add_aux_gates([n |-> add_new_node(n, aux_name(aux_gid), Or(new_args)),
                            aux_ids |-> Append(r.aux_ids, aux_gid)],
                           elem, Tail(subsets))

\* an expansion that pairs only the last root with the subsets of the rest
expand_vot_once(r, roots, clause_size) ==
    IF Len(roots) <= clause_size THEN r
    ELSE add_aux_gates(r, roots[Len(roots)],
                       combinations(SubSeq(roots, 1, Len(roots) - 1), clause_size))

RECURSIVE expand_vot(_, _, _)
\* while roots.len() > clause_size: pop the last root and pair it with every
\* clause_size-subset of the remaining ones
expand_vot(r, roots, clause_size) ==
    IF Len(roots) <= clause_size THEN r
    ELSE LET elem == roots[Len(roots)]
             rest == SubSeq(roots, 1, Len(roots) - 1)
         IN  expand_vot(add_aux_gates(r, elem, combinations(rest, clause_size)),
                        rest, clause_size)

update_roots(n, new_node, nid) ==
    [n EXCEPT !.nodes = [n.nodes EXCEPT ![nid + 1] = new_node]]

\* the body of fill_placeholders' loop for the placeholder at nid
fill_placeholder(n, nid, keep_vot) ==
    LET ph == n.nodes[nid + 1]
        args == ph.argnames
    IN  IF n.status # "ok" THEN n
        ELSE IF \E i \in 1..Len(args) : ~Has(n.lookup_table, args[i]) THEN Panic(n)
        ELSE LET args_ids == [i \in 1..Len(args) |-> n.lookup_table[args[i]]]
             IN  CASE ph.op = "or" -> update_roots(n, Or(args_ids), nid)
                   [] ph.op = "xor" -> update_roots(n, Xor(args_ids), nid)
                   [] ph.op = "and" -> update_roots(n, And(args_ids), nid)
                   [] ph.op = "not" ->
                        IF Len(args_ids) # 1 THEN Panic(n)
                        ELSE update_roots(n, Not(args_ids[1]), nid)
                   [] ph.op = "of" ->
                        IF Len(args) # ph.n \/ ph.k < 1 \/ ph.k > ph.n THEN Panic(n)
                        ELSE IF ph.n = ph.k THEN update_roots(n, And(args_ids), nid)
                        ELSE IF ph.k = 1 THEN update_roots(n, Or(args_ids), nid)
                        ELSE IF keep_vot THEN update_roots(n, Vot(ph.k, args_ids), nid)
                        ELSE LET r == expand_vot([n |-> n, aux_ids |-> <<>>],
                                                 args, ph.n - ph.k)
                             IN  update_roots(r.n, And(r.aux_ids), nid)
                   [] OTHER -> Panic(n)

RECURSIVE fill_each(_, _, _)
fill_each(n, nids, keep_vot) ==
    IF nids = <<>> THEN n
    ELSE fill_each(fill_placeholder(n, Head(nids), keep_vot), Tail(nids), keep_vot)

\* the placeholder list without its last entry
placeholder_nids_but_last(n) ==
    LET all == SortedSeq({ i \in 0..(Len(n.nodes) - 1) : n.nodes[i + 1].kind = "ph" })
    IN  SubSeq(all, 1, Len(all) - 1)

placeholder_nids(n) ==
    SortedSeq({ i \in 0..(Len(n.nodes) - 1) : n.nodes[i + 1].kind = "ph" })

fill_placeholders(n, keep_vot) == fill_each(n, placeholder_nids(n), keep_vot)

(***************************************************************************)
(* read_from_file as three steps (read_file, fill_placeholders, the root   *)
(* lookup followed by FaultTree::from and new_from_file's negate_or), then *)
(* the encoder and the counter on the tree it built.                       *)
(***************************************************************************)
NormState ==
    [lookup_table |-> lookup_table, nodes |-> ft.nodes,
     node_counter |-> ft.node_counter, root_name |-> root_name,
     replace_mapper |-> EmptyMap, status |-> "ok"]

ReadFile ==
    /\ pc = "text"
    /\ LET n == read_file(lines, config.simplify)
       IN  /\ ft' = [ft EXCEPT !.nodes = n.nodes, !.node_counter = n.node_counter]
           /\ lookup_table' = n.lookup_table
           /\ root_name' = n.root_name
           /\ pc' = IF n.status = "ok" THEN "read" ELSE n.status
    /\ UNCHANGED <<cnf, tep, lines, config>>
    /\ UNCHANGED drvvars
    /\ UNCHANGED runvars

FillPlaceholders ==
    /\ pc = "read"
    /\ LET n == fill_placeholders(NormState, FALSE)
       IN  /\ ft' = [ft EXCEPT !.nodes = n.nodes, !.node_counter = n.node_counter]
           /\ lookup_table' = n.lookup_table
           /\ pc' = IF n.status = "ok" THEN "filled" ELSE n.status
    /\ UNCHANGED <<cnf, tep, lines, config, root_name>>
    /\ UNCHANGED drvvars
    /\ UNCHANGED runvars

ResolveRoot ==
    /\ pc = "filled"
    /\ IF Has(lookup_table, root_name)
       THEN /\ ft' = [ft EXCEPT !.root_id = lookup_table[root_name],
                                !.negate_or = config.negate_or]
            /\ pc' = "tree"
       ELSE /\ pc' = "panic"
            /\ ft' = ft
    /\ UNCHANGED <<cnf, tep, lines, config, lookup_table, root_name>>
    /\ UNCHANGED drvvars
    /\ UNCHANGED runvars

NextNorm == ReadFile \/ FillPlaceholders \/ ResolveRoot \/ ApplyTseitin \/ CountModels

\* the run of read_from_file has returned
Normalized == lines # <<>> /\ pc \in {"tree", "cnf", "counted"}

(***************************************************************************)
(* Input files of the normalizer: two basic events x and y, then up to     *)
(* MaxFree further lines drawn from a pool of declarations over the gate   *)
(* names System (the default root) and G.                                  *)
(***************************************************************************)
\* number of lines after the two basic events
MaxFree == 2

NormPrefix == << BELine("x", <<1, 2>>), BELine("y", <<1, 3>>) >>

OneArgLines ==
    { GateLine(nm, op, <<a>>) :
        nm \in {"System", "G"}, op \in {"or", "xor", "not"}, a \in {"x", "System", "G"} }
    \cup { VotLine(nm, k, 1, <<"x">>) : nm \in {"System", "G"}, k \in {1, 2} }

TwoArgLines ==
    { GateLine("System", op, a) : op \in {"and", "xor"}, a \in { <<"x", "y">>, <<"G", "y">> } }
    \cup { GateLine("G", op, a) : op \in {"and", "xor"}, a \in { <<"x", "y">>, <<"System", "y">> } }

ThreeArgLines ==
    { VotLine("System", 2, 3, <<"G", "x", "y">>), VotLine("G", 2, 3, <<"x", "y", "x">>) }

NormPool ==
    { TopLine("G"), BELine("x", <<1, 5>>), BELine("G", <<1, 5>>) }
    \cup OneArgLines \cup TwoArgLines \cup ThreeArgLines

RECURSIVE SeqsUpTo(_, _)
\* the sequences over S of length at most n
SeqsUpTo(S, n) ==
    IF n = 0 THEN { <<>> }
    ELSE LET shorter == SeqsUpTo(S, n - 1)
         IN  shorter \cup { Append(q, x) : q \in { r \in shorter : Len(r) = n - 1 }, x \in S }

NormTexts == { NormPrefix \o free : free \in SeqsUpTo(NormPool, MaxFree) }

InitNormWith(texts) ==
    /\ pc = "text"
    /\ lines \in texts
    /\ config \in [simplify : BOOLEAN, negate_or : {FALSE}]
    /\ ft = EmptyTree
    /\ cnf = <<>>
    /\ tep = RZero
    /\ lookup_table = EmptyMap
    /\ root_name = ""
    /\ InitDrvVars
    /\ InitRunVars

InitNorm == InitNormWith(NormTexts)

SpecNorm == InitNorm /\ [][NextNorm]_vars

(***************************************************************************)
(* Graph notions on a tree.                                                *)
(***************************************************************************)
ChildSet(t, g) == Range(NodeAt(t, g).args)

RECURSIVE ReachFrom(_, _)
\* the nodes reachable from the set S by child references, S included
ReachFrom(t, S) ==
    LET next == S \cup UNION { ChildSet(t, g) : g \in S }
    IN  IF next = S THEN S ELSE ReachFrom(t, next)

Reachable(t) == ReachFrom(t, {t.root_id})
StrictDesc(t, g) == ReachFrom(t, ChildSet(t, g))
Subtree(t, g) == {g} \cup StrictDesc(t, g)
Acyclic(t) == \A g \in Reachable(t) : g \notin StrictDesc(t, g)

(***************************************************************************)
(* The whole pipeline as operators: read_from_file, FaultTree::new_from_file *)
(* and one solve of the tree's CNF.                                        *)
(***************************************************************************)
read_from_file(ls, simplify) ==
    LET r == read_file(ls, simplify)
    IN  IF r.status # "ok" THEN r ELSE fill_placeholders(r, FALSE)

new_from_file(ls, simplify, negate_or) ==
    LET n == read_from_file(ls, simplify)
    IN  IF n.status = "ok" /\ Has(n.lookup_table, n.root_name)
        THEN [status |-> "ok",
              ft |-> FaultTree(n.nodes, n.lookup_table[n.root_name], negate_or)]
        ELSE [status |-> IF n.status = "ok" THEN "panic" ELSE n.status, ft |-> EmptyTree]

\* the weighted model count of the tree's CNF
wmc_of(t) == WMC(apply_tseitin(t), get_weights(t), get_count(t))

(***************************************************************************)
(* Claims about the normalizer.                                            *)
(***************************************************************************)
\* C8: simplify never changes the TEP: the count obtained from an input is
\* the count obtained from the same input under the other simplify setting,
\* whenever both runs produce a tree.
C8_SimplifyKeepsTEP ==
    (lines # <<>> /\ pc = "counted") =>
        LET other == new_from_file(lines, ~config.simplify, config.negate_or)
        IN  (other.status = "ok" /\ ~apply_tseitin_panics(other.ft)) =>
                tep = wmc_of(other.ft)

\* C9: whenever read_from_file returns, no node is a PlaceHolder and every
\* child NodeId stored in a gate is the index of an existing node.
C9_NoPlaceholderValidChildren ==
    Normalized =>
        \A g \in NodeIds(ft) :
            /\ NodeAt(ft, g).kind # "ph"
            /\ ChildSet(ft, g) \subseteq NodeIds(ft)

\* a run that returned with auxiliary gates of a k-of-n expansion and a gate
\* that refers to another gate
C9_Witness ==
    /\ Normalized
    /\ Len(ft.nodes) > Len(lines)
    /\ \E g \in NodeIds(ft) : \E c \in ChildSet(ft, g) : is_gate(NodeAt(ft, c))
    /\ config.simplify

\* C10: after normalization the graph rooted at root_id is acyclic.
C10_AcyclicAfterNormalization == Normalized => Acyclic(ft)

(***************************************************************************)
(* The normalizer alone on inputs with one <k>of<n> gate over basic events. *)
(***************************************************************************)
\* largest n of a declared <k>of<n> gate
MaxVotN == 4

VotNames == SubSeq(<<"a", "b", "c", "d", "e", "f">>, 1, MaxVotN)

VotPrefix == [i \in 1..MaxVotN |-> BELine(VotNames[i], BEProb(i))]

\* k ranges over 0..n+1 and the argument list has n or n-1 entries, so the
\* rejected declarations are inputs too
VotTexts ==
    { Append(VotPrefix, VotLine("System", k, n, a)) :
        k \in 0..(MaxVotN + 1), n \in 2..MaxVotN,
        a \in UNION { [1..m -> Range(VotNames)] : m \in (MaxVotN - 1)..MaxVotN } }

InitNormVot == InitNormWith(VotTexts)

NextNormVot == ReadFile \/ FillPlaceholders \/ ResolveRoot

SpecNormVot == InitNormVot /\ [][NextNormVot]_vars

\* the declarations <k>of<n> with 1 < k < n of the input
ExpandedVots ==
    { i \in 1..Len(lines) :
        lines[i].t = "gate" /\ lines[i].op = "of" /\ 1 < lines[i].k /\ lines[i].k < lines[i].n }

\* C4: the And of auxiliary Or gates put in the place of a gate declared
\* <k>of<n> with 1 < k < n is true exactly when at least k of the n arguments
\* are true, under every truth assignment.
C4_VotExpansionAtLeastK ==
    (pc = "tree" /\ lines # <<>>) =>
        \A i \in ExpandedVots :
            LET g == lookup_table[lines[i].name]
                a == lines[i].args
            IN  /\ NodeAt(ft, g).kind = "and"
                /\ \A c \in ChildSet(ft, g) : NodeAt(ft, c).kind = "or"
                /\ \A b \in BEAssignments(ft) :
                       Eval(ft, g, b)
                           <=> Count({ j \in 1..Len(a) : Eval(ft, lookup_table[a[j]], b) })
                                   >= lines[i].k

\* a 2of4 gate over four distinct basic events has been expanded into the And
\* of four Or gates
C4_Witness ==
    /\ pc = "tree"
    /\ lines # <<>>
    /\ \E i \in ExpandedVots :
          /\ lines[i].k = 2
          /\ lines[i].n = 4
          /\ Count(Range(lines[i].args)) = 4
          /\ Len(NodeAt(ft, lookup_table[lines[i].name]).args) = 4

(***************************************************************************)
(* The modularizer (modularizer.rs).                                       *)
(***************************************************************************)
\* usize::MIN and usize::MAX, the initial t_max_desc and t_min_desc; the
\* model only needs USIZE_MAX to exceed every value of the clock
USIZE_MIN == 0
USIZE_MAX == 2147483647

Min(a, b) == IF a < b THEN a ELSE b
Max(a, b) == IF a > b THEN a ELSE b

\* fst_expanded and snd_expanded are not fields of the struct: they count
\* how often each DFS ran its loop over the children of the node
DFSNode ==
    [visited |-> FALSE, t_fst_visit |-> 0, t_snd_visit |-> 0, t_lst_visit |-> 0,
     t_max_desc |-> USIZE_MIN, t_min_desc |-> USIZE_MAX,
     fst_expanded |-> 0, snd_expanded |-> 0]

is_visited(node) == node.visited

\* only the lower bound of is_module
is_module_min_only(node) == node.t_min_desc > node.t_fst_visit

is_module(node) ==
    node.t_min_desc > node.t_fst_visit /\ node.t_max_desc < node.t_snd_visit

\* a test that takes every node for one the second DFS has not been at
snd_dfs_never_visited(node) == node.t_min_desc <= USIZE_MAX

\* true while the second DFS has not yet set the node's descendant times
snd_dfs_visited(node) == node.t_min_desc = USIZE_MAX

update_t_desc(node, min_c, max_c) ==
    IF snd_dfs_visited(node)
    THEN [node EXCEPT !.t_min_desc = min_c, !.t_max_desc = max_c]
    ELSE [node EXCEPT !.t_min_desc = Min(node.t_min_desc, min_c),
                      !.t_max_desc = Max(node.t_max_desc, max_c)]

RECURSIVE fst_dfs(_, _, _)
RECURSIVE fst_dfs_children(_, _, _)
\* st is [nodes, time]; ch[i + 1] is the child list of node i
fst_dfs(st, ch, curr_idx) ==
    LET t == st.time + 1
        was == st.nodes[curr_idx + 1]
        curr_node == [was EXCEPT !.t_lst_visit = t]
        put(node) == [nodes |-> [st.nodes EXCEPT ![curr_idx + 1] = node], time |-> t]
    IN  IF ch[curr_idx + 1] = <<>>
        THEN IF ~is_visited(was)
             THEN put([curr_node EXCEPT !.visited = TRUE, !.t_fst_visit = t,
                                        !.t_snd_visit = t])
             ELSE put(curr_node)
        ELSE IF ~is_visited(was)
             THEN fst_dfs(fst_dfs_children(
                              put([curr_node EXCEPT !.visited = TRUE, !.t_fst_visit = t,
                                                    !.fst_expanded = @ + 1]),
                              ch, ch[curr_idx + 1]),
                          ch, curr_idx)
             ELSE IF was.t_snd_visit = 0
                  THEN put([curr_node EXCEPT !.t_snd_visit = t])
                  ELSE put(curr_node)

\* the for loop over the children of a gate on its first visit
fst_dfs_children(st, ch, list) ==
    IF list = <<>> THEN st
    ELSE fst_dfs_children(fst_dfs(st, ch, Head(list)), ch, Tail(list))

RECURSIVE snd_dfs(_, _, _)
RECURSIVE snd_dfs_children(_, _, _, _)
\* returns [nodes, d_min, d_max]
snd_dfs(nodes, ch, curr_idx) ==
    LET curr_node == nodes[curr_idx + 1]
        t_fst_node == curr_node.t_fst_visit
        t_lst_node == curr_node.t_lst_visit
    IN  IF ~snd_dfs_visited(curr_node)
        THEN [nodes |-> nodes, d_min |-> t_fst_node, d_max |-> t_lst_node]
        ELSE LET after == snd_dfs_children(
                              [nodes EXCEPT ![curr_idx + 1].snd_expanded = @ + 1],
                              ch, curr_idx, ch[curr_idx + 1])
                 curr_min == after[curr_idx + 1].t_min_desc
                 curr_max == after[curr_idx + 1].t_max_desc
             IN  [nodes |-> after,
                  d_min |-> Min(curr_min, t_fst_node),
                  d_max |-> Max(curr_max, t_lst_node)]

\* the for loop over the one-step children in snd_dfs
snd_dfs_children(nodes, ch, curr_idx, list) ==
    IF list = <<>> THEN nodes
    ELSE LET r == snd_dfs(nodes, ch, Head(list))
         IN  snd_dfs_children(
                 [r.nodes EXCEPT ![curr_idx + 1] = update_t_desc(@, r.d_min, r.d_max)],
                 ch, curr_idx, Tail(list))

\* returns [nodes, time, module_ids]
get_modules(t) ==
    LET root == t.root_id
        ch == [i \in 1..Len(t.nodes) |-> children(t.nodes[i])]
        fst == fst_dfs([nodes |-> [i \in 1..Len(t.nodes) |-> DFSNode], time |-> 0],
                       ch, root)
        snd == snd_dfs(fst.nodes, ch, root)
    IN  [nodes |-> snd.nodes, time |-> fst.time,
         module_ids |-> SortedSeq({ nid \in NodeIds(t) :
                                      /\ is_module(snd.nodes[nid + 1])
                                      /\ ch[nid + 1] # <<>>
                                      /\ nid # root })]

GetModules ==
    /\ pc = "tree"
    /\ LET r == get_modules(ft)
       IN  /\ dfs_nodes' = r.nodes
           /\ time' = r.time
           /\ module_ids' = r.module_ids
    /\ pc' = "modules"
    /\ UNCHANGED <<ft, cnf, tep, lines, config, lookup_table, root_name, solves, mod_tep>>
    /\ UNCHANGED runvars

(***************************************************************************)
(* The modularizer on every DAG of MaxModNodes nodes labelled top-down:    *)
(* the child list of node i is any sequence without repetition over the    *)
(* nodes i+1.. , so nodes are shared and may be unreachable from the root. *)
(***************************************************************************)
MaxModNodes == 5

\* the sequences without repetition over S
InjSeqs(S) ==
    UNION { { q \in [1..m -> S] : \A i, j \in 1..m : q[i] = q[j] => i = j } :
              m \in 0..Count(S) }

ModNodeChoices(i, N) ==
    { IF q = <<>> THEN BasicEvent(BENames[i + 1], "prob", BEProb(i)) ELSE And(q) :
        q \in InjSeqs((i + 1)..(N - 1)) }

RECURSIVE ModNodeSeqs(_, _)
ModNodeSeqs(i, N) ==
    IF i = N THEN { <<>> }
    ELSE { <<c>> \o rest : c \in ModNodeChoices(i, N), rest \in ModNodeSeqs(i + 1, N) }

ModTrees == { FaultTree(ns, r, FALSE) : ns \in ModNodeSeqs(0, MaxModNodes), r \in {0, 1} }

InitMod ==
    /\ pc = "tree"
    /\ ft \in ModTrees
    /\ cnf = <<>>
    /\ tep = RZero
    /\ lines = <<>>
    /\ config = [simplify |-> FALSE, negate_or |-> FALSE]
    /\ lookup_table = EmptyMap
    /\ root_name = ""
    /\ InitDrvVars
    /\ InitRunVars

NextMod == GetModules

SpecMod == InitMod /\ [][NextMod]_vars

\* the parents of strict descendants of g among the nodes of P outside g's subtree
OutsideParents(t, g, P) ==
    { p \in P \ Subtree(t, g) : ChildSet(t, p) \cap StrictDesc(t, g) # {} }

\* the gates reachable from the root, other than the root, none of whose
\* strict descendants is a child of a node of P outside the gate's subtree
ModulesAmong(t, P) ==
    { g \in Reachable(t) :
        /\ children(NodeAt(t, g)) # <<>>
        /\ g # t.root_id
        /\ OutsideParents(t, g, P) = {} }

\* C5 as stated: get_modules returns exactly the reachable non-root gates
\* none of whose strict descendants is a child of any node outside the
\* gate's subtree, unreachable nodes included.
C5_ModulesAgainstAllNodes ==
    pc = "modules" => Range(module_ids) = ModulesAmong(ft, NodeIds(ft))

\* C5 amended: get_modules returns, each once, exactly the reachable non-root
\* gates none of whose strict descendants is a child of a node that is
\* reachable from the root and outside the gate's subtree.
C5_ModulesAgainstReachableNodes ==
    pc = "modules" =>
        /\ Range(module_ids) = ModulesAmong(ft, Reachable(ft))
        /\ Len(module_ids) = Count(Range(module_ids))

\* get_modules has run on a DAG in which two nested gates are reported
\* although a descendant of both is a child of an unreachable node
C5_Witness ==
    /\ pc = "modules"
    /\ \E g, h \in Range(module_ids) :
          /\ g \in ChildSet(ft, h)
          /\ OutsideParents(ft, g, NodeIds(ft)) # {}
          /\ OutsideParents(ft, g, Reachable(ft)) = {}

(***************************************************************************)
(* The solve driver: Solver::compute, subtree_with_root, replace_modules   *)
(* and importance_measures.  A solve record tells who asked for the solve, *)
(* whether a solver process was run, whether the CNF handed to it carries  *)
(* the unit clause NOT root, and whether 1 - result was returned.          *)
(***************************************************************************)
\* returns [value, log]: log holds the record of this call
compute(t, negate_top_or, who) ==
    LET root == NodeAt(t, t.root_id)
    IN  IF root.kind = "be"
        THEN [value |-> unreliability(root),
              log |-> << [who |-> who, solver |-> FALSE, unit_neg |-> FALSE,
                          complemented |-> FALSE] >>]
        ELSE LET top_is_or == is_or(root)
                 f == apply_tseitin(t)
                 wmc_res == WMC(f, get_weights(t), get_count(t))
             IN  [value |-> IF top_is_or /\ negate_top_or
                            THEN RSub(ROne, wmc_res)
                            ELSE wmc_res,
                  log |-> << [who |-> who, solver |-> TRUE,
                              unit_neg |-> (Head(f) = <<negate(Atom(t.root_id))>>),
                              complemented |-> (top_is_or /\ negate_top_or)] >>]

map_to_args(node, mapper) ==
    IF node.kind \in {"ph", "be"} THEN node
    ELSE [node EXCEPT !.args = [i \in 1..Len(node.args) |-> mapper[node.args[i]]]]

\* Vec::insert: the element is placed at position index (0-based)
vec_insert(v, index, element) ==
    SubSeq(v, 1, index) \o <<element>> \o SubSeq(v, index + 1, Len(v))

\* FaultTree::add_node and the counter step of FaultTree::new_id
ft_add_node(t, node, nid) == [t EXCEPT !.nodes = vec_insert(t.nodes, nid, node)]
\* a new_id that hands out the counter without advancing it
ft_new_id_kept(t) == t
ft_new_id_taken(t) == [t EXCEPT !.node_counter = t.node_counter + 1]

RECURSIVE subtree_loop(_, _, _, _)
\* the while loop of subtree_with_root: pop the last id of to_process, copy
\* its node under a fresh id, push its children that have no copy yet
subtree_loop(t, sub_ft, new_id_mapper, to_process) ==
    IF to_process = <<>> THEN [ft |-> sub_ft, mapper |-> new_id_mapper]
    ELSE LET nid == to_process[Len(to_process)]
             node == NodeAt(t, nid)
             new_nid == sub_ft.node_counter
             mapper == Insert(new_id_mapper, nid, new_nid)
             ch == children(node)
             fresh == { i \in 1..Len(ch) : ~Has(mapper, ch[i]) }
             pushed == [i \in 1..Count(fresh) |-> ch[SortedSeq(fresh)[i]]]
         IN  subtree_loop(t, ft_add_node(ft_new_id_taken(sub_ft), node, new_nid), mapper,
                          SubSeq(to_process, 1, Len(to_process) - 1) \o pushed)

\* the sub tree is built on FaultTree::empty(): root_id 0, negate_or false
subtree_with_root(t, new_root_id) ==
    LET r == subtree_loop(t, EmptyTree, EmptyMap, <<new_root_id>>)
    IN  [r.ft EXCEPT !.nodes = [i \in 1..Len(r.ft.nodes) |->
                                   map_to_args(r.ft.nodes[i], r.mapper)]]

\* Vec::remove: the element at position index (0-based) is taken out and the
\* later ones move down
vec_remove(v, index) == SubSeq(v, 1, index) \o SubSeq(v, index + 2, Len(v))

\* update_root: nodes.remove(nid), then nodes.insert(nid, new_node)
update_root(t, new_node, nid) ==
    [t EXCEPT !.nodes = vec_insert(vec_remove(t.nodes, nid), nid, new_node)]

div_ceil(a, b) == (a + b - 1) \div b

\* only the first chunk
chunks_first_only(s, size) ==
    IF s = <<>> THEN <<>>
    ELSE IF Len(s) <= size THEN << s >>
    ELSE << SubSeq(s, 1, size) >>

\* slice::chunks
RECURSIVE chunks(_, _)
chunks(s, size) ==
    IF s = <<>> THEN <<>>
    ELSE IF Len(s) <= size THEN << s >>
    ELSE << SubSeq(s, 1, size) >> \o chunks(SubSeq(s, size + 1, Len(s)), size)

repl_node(mod_id, value) ==
    BasicEvent("repl_node_" \o ToString(mod_id + 1), "prob", value)

\* only the first replacement of a chunk is applied
apply_first_replacement(t, to_replace) ==
    IF to_replace = <<>> THEN t
    ELSE update_root(t, Head(to_replace).node, Head(to_replace).mod_id)

RECURSIVE apply_replacements(_, _)
apply_replacements(t, to_replace) ==
    IF to_replace = <<>> THEN t
    ELSE apply_replacements(update_root(t, Head(to_replace).node, Head(to_replace).mod_id),
                            Tail(to_replace))

\* the log entry of the solve of module mod_id, with the shared tree the
\* sub tree was extracted from
module_solve(e, mod_id, t) ==
    [who |-> e.who, solver |-> e.solver, unit_neg |-> e.unit_neg,
     complemented |-> e.complemented, mod_id |-> mod_id, tree |-> t]

RECURSIVE replace_chunks(_, _, _)
\* r is [ft, log]; every module of a chunk is solved on the tree as it was
\* when the chunk started, then the chunk's replacements are applied
replace_chunks(r, cs, negate_or) ==
    IF cs = <<>> THEN r
    ELSE LET chunk == Head(cs)
             solved == [i \in 1..Len(chunk) |->
                           compute(subtree_with_root(r.ft, chunk[i]), negate_or, "module")]
             to_replace == [i \in 1..Len(chunk) |->
                               [mod_id |-> chunk[i],
                                node |-> repl_node(chunk[i], solved[i].value)]]
         IN  replace_chunks([ft |-> apply_replacements(r.ft, to_replace),
                             log |-> r.log \o [i \in 1..Len(chunk) |->
                                        module_solve(solved[i].log[1], chunk[i], r.ft)]],
                            Tail(cs), negate_or)

\* std::cmp::max(module_ids.len().div_ceil(num_threads), num_threads)
chunk_size(len, num_threads) == Max(div_ceil(len, num_threads), num_threads)

replace_modules(t, mods, num_threads, negate_or) ==
    replace_chunks([ft |-> t, log |-> <<>>],
                   chunks(mods, chunk_size(Len(mods), num_threads)), negate_or)

\* the solves of measure_be on a private clone: the event set to 1, then to 0
measure_be(t, nid, negate_or) ==
    LET name == NodeAt(t, nid).name
        pos == update_root(t, BasicEvent(name, "prob", ROne), nid)
        neg == update_root(pos, BasicEvent(name, "prob", RZero), nid)
    IN  compute(pos, negate_or, "measure").log \o compute(neg, negate_or, "measure").log

importance_measures(t, negate_or) ==
    LET true_tep == compute(t, negate_or, "measure")
        be_list == SortedSeq(BEs(t))
    IN  [value |-> true_tep.value,
         log |-> true_tep.log
                 \o Flatten([i \in 1..Len(be_list) |-> measure_be(t, be_list[i], negate_or)])]

Reverse(s) == [i \in 1..Len(s) |-> s[Len(s) + 1 - i]]

(***************************************************************************)
(* The driver on trees of MaxDrvNodes nodes labelled top-down whose gates  *)
(* are And and Or gates with one or two children; node 0 is the root.      *)
(***************************************************************************)
MaxDrvNodes == 5
MaxThreads == 2

DrvChildLists(i, N) ==
    { SortedSeq(S) : S \in { T \in SUBSET ((i + 1)..(N - 1)) : Count(T) \in 1..2 } }

DrvNodeChoices(i, N) ==
    { BasicEvent(BENames[i + 1], "prob", BEProb(i)) }
    \cup { And(q) : q \in DrvChildLists(i, N) }
    \cup { Or(q) : q \in DrvChildLists(i, N) }

RECURSIVE DrvNodeSeqs(_, _)
DrvNodeSeqs(i, N) ==
    IF i = N THEN { <<>> }
    ELSE { <<c>> \o rest : c \in DrvNodeChoices(i, N), rest \in DrvNodeSeqs(i + 1, N) }

InitDrv ==
    /\ pc = "tree"
    /\ config \in [simplify : {FALSE}, negate_or : BOOLEAN, num_threads : 1..MaxThreads]
    /\ \E ns \in DrvNodeSeqs(0, MaxDrvNodes) : ft = FaultTree(ns, 0, config.negate_or)
    /\ cnf = <<>>
    /\ tep = RZero
    /\ lines = <<>>
    /\ lookup_table = EmptyMap
    /\ root_name = ""
    /\ InitDrvVars
    /\ InitRunVars

\* the solve of the tree as it was read
SolveTop ==
    /\ pc = "tree"
    /\ solves = <<>>
    /\ LET r == compute(ft, config.negate_or, "top")
       IN  /\ tep' = r.value
           /\ solves' = solves \o r.log
    /\ UNCHANGED <<pc, ft, cnf, lines, config, lookup_table, root_name,
                   dfs_nodes, time, module_ids, mod_tep>>
    /\ UNCHANGED runvars

ImportanceMeasures ==
    /\ pc = "tree"
    /\ solves = <<>>
    /\ LET r == importance_measures(ft, config.negate_or)
       IN  /\ tep' = r.value
           /\ solves' = solves \o r.log
    /\ pc' = "measured"
    /\ UNCHANGED <<ft, cnf, lines, config, lookup_table, root_name,
                   dfs_nodes, time, module_ids, mod_tep>>
    /\ UNCHANGED runvars

\* module_ids.reverse() followed by replace_modules
ReplaceModules ==
    /\ pc = "modules"
    /\ LET r == replace_modules(ft, Reverse(module_ids), config.num_threads,
                                config.negate_or)
       IN  /\ ft' = r.ft
           /\ solves' = solves \o r.log
    /\ module_ids' = Reverse(module_ids)
    /\ pc' = "replaced"
    /\ UNCHANGED <<cnf, tep, lines, config, lookup_table, root_name,
                   dfs_nodes, time, mod_tep>>
    /\ UNCHANGED runvars

\* the final solve of the residual tree
SolveResidual ==
    /\ pc = "replaced"
    /\ LET r == compute(ft, config.negate_or, "residual")
       IN  /\ mod_tep' = r.value
           /\ solves' = solves \o r.log
    /\ pc' = "done"
    /\ UNCHANGED <<ft, cnf, tep, lines, config, lookup_table, root_name,
                   dfs_nodes, time, module_ids>>
    /\ UNCHANGED runvars

NextDrv ==
    SolveTop \/ ImportanceMeasures \/ GetModules \/ ReplaceModules \/ SolveResidual

SpecDrv == InitDrv /\ [][NextDrv]_vars

\* C6: in every solve the driver performs, 1 - (solver result) is returned if
\* and only if the CNF handed to the solver carries the unit clause NOT root.
C6_ComplementIffNegatedUnit ==
    \A i \in 1..Len(solves) :
        solves[i].solver => (solves[i].complemented <=> solves[i].unit_neg)

\* C7: the TEP obtained after get_modules, reverse and replace_modules equals
\* the TEP of the direct solve of the same tree, for every num_threads and
\* both values of negate_or.
C7_ModularizationPreservesTEP ==
    (pc = "done" /\ solves[1].who = "top") => mod_tep = tep

(***************************************************************************)
(* Further claims about the normalizer.                                    *)
(***************************************************************************)
\* the positions of the declarations (gates and basic events) of the input
DeclLines == { i \in 1..Len(lines) : lines[i].t \in {"gate", "be"} }

\* two declarations of the input use the same name
DuplicateNames == \E i, j \in DeclLines : i # j /\ lines[i].name = lines[j].name

\* C11: an input in which two declarations use the same name is never
\* accepted, with simplify on or off.
C11_DuplicateNamesRejected == Normalized => ~DuplicateNames

(***************************************************************************)
(* Further claims about the modularizer and the driver.                    *)
(***************************************************************************)
\* C12: once replace_modules has replaced every module get_modules returned,
\* get_modules returns no module on the resulting tree, and a second
\* replace_modules on that (empty) list leaves the tree unchanged.
C12_ModularizationIdempotent ==
    pc \in {"replaced", "done"} =>
        LET again == get_modules(ft).module_ids
        IN  /\ again = <<>>
            /\ replace_modules(ft, Reverse(again), config.num_threads,
                               config.negate_or).ft = ft

\* at least two modules have been replaced and a gate that is not a module
\* is still below the root
C12_Witness ==
    /\ pc = "replaced"
    /\ Len(module_ids) >= 2
    /\ \E g \in Reachable(ft) \ {ft.root_id} : children(NodeAt(ft, g)) # <<>>

(***************************************************************************)
(* run_model of the four backends (solver.rs): what is returned once the   *)
(* solver process has finished.  stderr is a sequence of characters; the   *)
(* character "0xFF" stands for a byte that is not valid UTF-8, "KELVIN"    *)
(* for U+212A, whose lowercase is k.                                       *)
(***************************************************************************)
Backends == {"SharpSAT-TD", "GPMC", "DMC", "ADDMC"}

Ok(out) == [kind |-> "ok", msg |-> ""]
Err(msg) == [kind |-> "err", msg |-> msg]
\* the unwrap of a failed String::from_utf8
Utf8Panic == [kind |-> "panic", msg |-> "FromUtf8Error"]

from_utf8_fails(bytes) == \E i \in 1..Len(bytes) : bytes[i] = "0xFF"

\* char::to_lowercase on the characters of the model
lower_char(c) ==
    CASE c \in {"K", "KELVIN"} -> "k"
      [] c = "I" -> "i"
      [] c = "L" -> "l"
      [] c = "E" -> "e"
      [] c = "D" -> "d"
      [] c = "X" -> "x"
      [] OTHER -> c

\* no case change at all
keep_case(str) == str

to_lowercase(str) == [i \in 1..Len(str) |-> lower_char(str[i])]

killed_nl == <<"k", "i", "l", "l", "e", "d", "\n">>

\* the match on wait_with_output of a finished process, with the message of
\* the last arm, which differs between the backends
classify(bytes, other_msg) ==
    IF from_utf8_fails(bytes) THEN Utf8Panic
    ELSE LET err == to_lowercase(bytes)
         IN  IF err = <<>> THEN Ok(bytes)
             ELSE IF err = killed_nl THEN Err("Execution timeout.")
             ELSE Err(other_msg)

run_model_sharpsat(bytes) == classify(bytes, "Something went wrong...")
run_model_gpmc(bytes) == classify(bytes, "Something went wrong.")
run_model_dmc(bytes) == classify(bytes, "Something went wrong.")
run_model_addmc(bytes) == classify(bytes, "Something went wrong.")

\* the file system of tmpdir as the set of the names of its files: writing
\* a file creates or overwrites it, fs::remove_file deletes it
dump_cnf_to_file(files, filename) == files \cup {filename}
remove_file(files, filename) == files \ {filename}

(***************************************************************************)
(* u64 values, kept at their width of 64 bits as four limbs of 16 bits,    *)
(* least significant first.                                                *)
(***************************************************************************)
LimbBase == 65536
Limbs == 4

\* the u64 of a natural number below LimbBase * LimbBase
u64(n) == <<n % LimbBase, (n \div LimbBase) % LimbBase, 0, 0>>

\* the borrow that limb i of a - b takes from limb i + 1
RECURSIVE borrow_out(_, _, _)
borrow_out(a, b, i) ==
    IF i = 0 THEN 0
    ELSE IF a[i] - b[i] - borrow_out(a, b, i - 1) < 0 THEN 1 ELSE 0

\* a - b overflows if and only if the last limb borrows
sub_overflows(a, b) == borrow_out(a, b, Limbs) = 1

\* a - b modulo 2^64
wrapping_sub(a, b) ==
    [i \in 1..Limbs |-> (a[i] - b[i] - borrow_out(a, b, i - 1)) % LimbBase]

u64_le(a, b) == ~sub_overflows(b, a)

\* a build with overflow checks panics on an overflowing subtraction, a
\* build without them wraps around
Builds == {"overflow-checks", "wrapping"}
SubOverflowPanic == [kind |-> "panic", msg |-> "attempt to subtract with overflow"]

\* compute_joint_tree: htb runs under `timeout -s kill timeout_s`, its
\* wall time is measured around the whole command, and what is left of
\* timeout_s after duration.as_secs() is returned
compute_joint_tree(timeout_s, secs, build) ==
    IF sub_overflows(timeout_s, secs) /\ build = "overflow-checks"
    THEN SubOverflowPanic
    ELSE [kind |-> "ok", remaining_s |-> wrapping_sub(timeout_s, secs)]

\* the wall times measured for htb, in whole seconds: the kill signal is
\* sent after timeout_s seconds, the measurement also covers the start of
\* the shell and the collection of the output, and a timeout of 0 disables
\* the limit of `timeout`
MaxElapsed == 3
MaxTimeout == 2

\* run_model returns: nothing else of the state changes
Returned ==
    /\ pc' = "finished"
    /\ UNCHANGED <<ft, cnf, tep, lines, config, lookup_table, root_name, solver, stderr, info, sub,
                   sub_root, tmp_ft_file, workers, measures, weights, failing>>
    /\ UNCHANGED drvvars

RunSharpsatTD ==
    /\ pc = "spawned"
    /\ solver = "SharpSAT-TD"
    /\ outcome' = run_model_sharpsat(stderr)
    /\ UNCHANGED <<duration, remaining_s>>
    /\ tmp_files' = IF run_model_sharpsat(stderr).kind = "ok"
                    THEN remove_file(dump_cnf_to_file(tmp_files, tmp_ft_file), tmp_ft_file)
                    ELSE dump_cnf_to_file(tmp_files, tmp_ft_file)
    /\ Returned

RunGPMC ==
    /\ pc = "spawned"
    /\ solver = "GPMC"
    /\ outcome' = run_model_gpmc(stderr)
    /\ UNCHANGED <<duration, remaining_s>>
    /\ tmp_files' = tmp_files
    /\ Returned

\* DMC's run_model: the CNF is written, compute_joint_tree runs htb for
\* secs whole seconds of wall time, then dmc runs under the remaining timeout
RunDMC ==
    /\ pc = "spawned"
    /\ solver = "DMC"
    /\ tmp_files' = dump_cnf_to_file(tmp_files, tmp_ft_file)
    /\ \E secs \in 0..MaxElapsed, build \in Builds :
          LET joint == compute_joint_tree(u64(config.timeout_s), u64(secs), build)
          IN  /\ duration' = secs
              /\ IF joint.kind = "panic"
                 THEN /\ outcome' = joint
                      /\ remaining_s' = remaining_s
                 ELSE /\ remaining_s' = joint.remaining_s
                      /\ outcome' = run_model_dmc(stderr)
    /\ Returned

RunADDMC ==
    /\ pc = "spawned"
    /\ solver = "ADDMC"
    /\ outcome' = run_model_addmc(stderr)
    /\ UNCHANGED <<duration, remaining_s>>
    /\ tmp_files' = tmp_files
    /\ Returned

NextRun == RunSharpsatTD \/ RunGPMC \/ RunDMC \/ RunADDMC

(***************************************************************************)
(* The stderr contents run_model is run on: every spelling of "killed\n"   *)
(* in upper and lower case, each also cut short, extended by up to         *)
(* MaxExtra characters and with one character replaced, and a few others.  *)
(***************************************************************************)
MaxExtra == 1

\* the characters that differ from c at most in case
CaseForms(c) ==
    CASE c = "k" -> {"k", "K", "KELVIN"}
      [] c = "i" -> {"i", "I"}
      [] c = "l" -> {"l", "L"}
      [] c = "e" -> {"e", "E"}
      [] c = "d" -> {"d", "D"}
      [] OTHER -> {c}

KilledSpellings ==
    { <<k, i, l1, l2, e, d, "\n">> :
        k \in CaseForms("k"), i \in CaseForms("i"), l1 \in CaseForms("l"),
        l2 \in CaseForms("l"), e \in CaseForms("e"), d \in CaseForms("d") }

Replaced(q) ==
    { [q EXCEPT ![i] = c] : i \in 1..Len(q), c \in {"x", "X", "0xFF", "\n"} }

StderrTexts ==
    { <<>>, <<"\n">>, <<"x">>, <<"0xFF">>, <<"e", "r", "r", "o", "r", "\n">> }
    \cup UNION { { q \o extra : extra \in SeqsUpTo({"\n", "x", "0xFF"}, MaxExtra) }
                 \cup { <<"x">> \o q, SubSeq(q, 1, Len(q) - 1) }
                 \cup Replaced(q) : q \in KilledSpellings }

\* the five random characters of the file name; files of earlier calls may
\* be in tmpdir
TmpNames == {"aaaaa", "bbbbb"}

InitRun ==
    /\ pc = "spawned"
    /\ solver \in Backends
    /\ stderr \in StderrTexts
    /\ outcome = [kind |-> "none", msg |-> ""]
    /\ info = <<0, 0, 0>>
    /\ sub = EmptyTree
    /\ sub_root = 0
    /\ tmp_ft_file \in TmpNames
    /\ tmp_files \in SUBSET TmpNames
    /\ ft = EmptyTree
    /\ cnf = <<>>
    /\ tep = RZero
    /\ lines = <<>>
    /\ duration = 0
    /\ remaining_s = u64(0)
    /\ workers = <<>>
    /\ measures = EmptyMap
    /\ weights = <<>>
    /\ failing = {}
    /\ config \in [simplify : {FALSE}, negate_or : {FALSE}, timeout_s : 0..MaxTimeout]
    /\ lookup_table = EmptyMap
    /\ root_name = ""
    /\ InitDrvVars

SpecRun == InitRun /\ [][NextRun]_vars

\* stderr is "killed\n" up to the case of its letters
IsKilledIgnoringCase(str) ==
    /\ Len(str) = Len(killed_nl)
    /\ \A i \in 1..Len(str) : str[i] \in CaseForms(killed_nl[i])

\* C13: for every backend the result of run_model on a finished process is
\* determined by stderr alone: Ok for an empty stderr, the timeout error
\* for "killed\n" in any case, and for every other stderr a hard error (an
\* Err with another message, or the panic of from_utf8().unwrap() on bytes
\* that are not UTF-8) that is not the timeout error.  A DMC run that
\* panicked in compute_joint_tree never started its solver process.
C13_StderrClassification ==
    (pc = "finished" /\ outcome # SubOverflowPanic) =>
        /\ outcome.kind \in {"ok", "err", "panic"}
        /\ (outcome.kind = "ok") <=> (stderr = <<>>)
        /\ (outcome = Err("Execution timeout.")) <=> IsKilledIgnoringCase(stderr)
        /\ (stderr # <<>> /\ ~IsKilledIgnoringCase(stderr)) =>
              (outcome.kind \in {"err", "panic"} /\ outcome.msg # "Execution timeout.")

\* DMC has finished with stderr "KiLlEd\n" and run_model returned the timeout
C13_Witness ==
    /\ pc = "finished"
    /\ solver = "DMC"
    /\ stderr = <<"K", "i", "L", "l", "E", "d", "\n">>
    /\ outcome = Err("Execution timeout.")

(***************************************************************************)
(* Solver::compute with the unavailability flag (solver.rs:50-79) and the  *)
(* basic events of nodes.rs: a distribution and an optional repair mode.   *)
(***************************************************************************)
Discrete(prob) == <<"Discrete", prob>>
Continuous(lambda) == <<"Continuous", lambda>>
NoRepair == <<"None">>
Monitored(l_d) == <<"Monitored", l_d>>
PeriodicallyTested(t, t_r) == <<"PeriodicallyTested", t, t_r>>

\* a / b for b # 0
RDiv(a, b) == RNorm(a[1] * b[2], a[2] * b[1])

\* 1.0 - (-lambda * timepoint).exp(): not a rational unless the exponent is
\* 0, so the value is kept as a term in the exponent
ExpCdf(lambda, timepoint) ==
    IF RMul(lambda, timepoint) = RZero THEN RZero
    ELSE <<"1-exp(-x)", RMul(lambda, timepoint)>>

\* a basic event node that carries a distribution and a repair mode
RepairableEvent(name, dist, repair_mode) ==
    [kind |-> "be", name |-> name, op |-> "", k |-> 0, n |-> 0, args |-> <<>>,
     argnames |-> <<>>,
     method |-> IF dist[1] = "Discrete" THEN "prob" ELSE "lambda",
     value |-> dist[2], repair_mode |-> repair_mode]

dist_of(node) ==
    IF node.method = "prob" THEN Discrete(node.value) ELSE Continuous(node.value)

\* new_with_prob / new_with_rate leave repair_mode at None
repair_mode_of(node) ==
    IF "repair_mode" \in DOMAIN node THEN node.repair_mode ELSE NoRepair

BE_unreliability(dist, timepoint) ==
    IF dist[1] = "Discrete" THEN dist[2] ELSE ExpCdf(dist[2], timepoint)

\* the match of BasicEvent::unavailability, arm by arm
BE_unavailability(dist, repair_mode, timepoint) ==
    IF repair_mode = NoRepair THEN BE_unreliability(dist, timepoint)
    ELSE IF dist[1] = "Discrete" THEN dist[2]
    ELSE IF repair_mode[1] = "Monitored"
    THEN LET x == RMul(dist[2], RDiv(ROne, repair_mode[2]))
         IN  RDiv(x, RAdd(ROne, x))
    ELSE RAdd(RDiv(RMul(dist[2], repair_mode[2]), <<2, 1>>),
              RMul(dist[2], repair_mode[3]))

None == <<"None">>
Some(v) == <<"Some", v>>

\* Node::unreliability and Node::unavailability: Some for a basic event only
node_unreliability(node, timepoint) ==
    IF node.kind = "be" THEN Some(BE_unreliability(dist_of(node), timepoint))
    ELSE None

node_unavailability(node, timepoint) ==
    IF node.kind = "be"
    THEN Some(BE_unavailability(dist_of(node), repair_mode_of(node), timepoint))
    ELSE None

\* compute that takes the root's unreliability whatever unav is
compute_unav_ignored(t, timepoint, negate_top_or, unav) ==
    LET root == NodeAt(t, t.root_id)
        short == [who |-> "top", solver |-> FALSE, unit_neg |-> FALSE,
                  complemented |-> FALSE]
    IN  IF node_unreliability(root, timepoint) # None
        THEN [value |-> node_unreliability(root, timepoint)[2], log |-> <<short>>]
        ELSE compute(t, negate_top_or, "top")

\* compute: the two short-circuit branches, else the solver branch (which
\* is compute above; the trees with a gate root below hold discrete events
\* without repair only, whose weights do not depend on unav)
compute_unav(t, timepoint, negate_top_or, unav) ==
    LET root == NodeAt(t, t.root_id)
        short == [who |-> "top", solver |-> FALSE, unit_neg |-> FALSE,
                  complemented |-> FALSE]
    IN  IF ~unav /\ node_unreliability(root, timepoint) # None
        THEN [value |-> node_unreliability(root, timepoint)[2], log |-> <<short>>]
        ELSE IF unav /\ node_unavailability(root, timepoint) # None
        THEN [value |-> node_unavailability(root, timepoint)[2], log |-> <<short>>]
        ELSE compute(t, negate_top_or, "top")

\* solve: one call of compute with the configured flags
Compute ==
    /\ pc = "tree"
    /\ LET r == compute_unav(ft, config.timepoint, config.negate_or, config.unav)
       IN  /\ tep' = r.value
           /\ solves' = r.log
    /\ pc' = "solved"
    /\ UNCHANGED <<ft, cnf, lines, config, lookup_table, root_name>>
    /\ UNCHANGED <<dfs_nodes, time, module_ids, mod_tep>>
    /\ UNCHANGED runvars

NextTop == Compute

\* largest timepoint of the solves
MaxTime == 2
Timepoints == { <<t, 1>> : t \in 0..MaxTime }
Rates == { <<1, 2>>, <<1, 10>> }
RepairModes ==
    {NoRepair} \cup { Monitored(m) : m \in { <<1, 1>>, <<4, 1>> } }
               \cup { PeriodicallyTested(<<t, 1>>, r) :
                        t \in 1..MaxTime, r \in { <<0, 1>>, <<1, 4>> } }
RepairableEvents ==
    { RepairableEvent("x", d, rm) :
        d \in { Discrete(BEProb(i)) : i \in 0..2 } \cup { Continuous(l) : l \in Rates },
        rm \in RepairModes }

\* a basic event as the root (alone, or under a gate that is not the root),
\* and gates over discrete events as the root
TopTrees ==
    { FaultTree(<<e>>, 0, neg) : e \in RepairableEvents, neg \in BOOLEAN }
    \cup { FaultTree(<<Or(<<1>>), e>>, 1, neg) : e \in RepairableEvents, neg \in BOOLEAN }
    \cup { FaultTree(<<g, BasicEvent("x", "prob", BEProb(0)),
                          BasicEvent("y", "prob", BEProb(1))>>, 0, neg) :
             g \in {Or(<<1, 2>>), And(<<1, 2>>), Not(1), Or(<<1>>)}, neg \in BOOLEAN }

InitTop ==
    /\ pc = "tree"
    /\ ft \in TopTrees
    /\ config \in [simplify : {FALSE}, negate_or : BOOLEAN, num_threads : {1},
                   unav : BOOLEAN, timepoint : Timepoints]
    /\ ft.negate_or = config.negate_or
    /\ cnf = <<>>
    /\ tep = RZero
    /\ lines = <<>>
    /\ lookup_table = EmptyMap
    /\ root_name = ""
    /\ InitDrvVars
    /\ InitRunVars

SpecTop == InitTop /\ [][NextTop]_vars

RootNode == NodeAt(ft, ft.root_id)

\* C14: when the root is a basic event, compute returns its unreliability,
\* or its unavailability when unavailability is requested, starts no solver
\* process and does not complement the value, whatever negate_or is.
C14_BasicEventRootShortCircuit ==
    (pc = "solved" /\ RootNode.kind = "be") =>
        /\ tep = IF config.unav
                 THEN BE_unavailability(dist_of(RootNode), repair_mode_of(RootNode),
                                        config.timepoint)
                 ELSE BE_unreliability(dist_of(RootNode), config.timepoint)
        /\ Len(solves) = 1
        /\ ~solves[1].solver
        /\ ~solves[1].complemented

\* unavailability of a monitored event with a failure rate was requested
\* with negate_or on, and differs from the event's unreliability
C14_Witness ==
    /\ pc = "solved"
    /\ RootNode.kind = "be"
    /\ config.unav /\ config.negate_or
    /\ RootNode.method = "lambda"
    /\ repair_mode_of(RootNode)[1] = "Monitored"
    /\ tep # BE_unreliability(dist_of(RootNode), config.timepoint)
    /\ ~solves[1].solver

(***************************************************************************)
(* The info command: get_info (fault_tree.rs:145-175).                     *)
(***************************************************************************)
\* the number of stored nodes whose kind is one of kinds: the filters of
\* get_info run over all indices of `nodes`
count_kinds(t, kinds) ==
    Cardinality({ i \in 1..Len(t.nodes) : t.nodes[i].kind \in kinds })

num_clauses(f) == Len(f)

get_info(t) ==
    LET num_be == count_kinds(t, {"be"})
        num_gates == count_kinds(t, {"and", "or", "vot", "not"})
        f == apply_tseitin(t)
    IN  <<num_be, num_gates, num_clauses(f)>>

GetInfo ==
    /\ pc = "tree"
    /\ ~apply_tseitin_panics(ft)
    /\ info' = get_info(ft)
    /\ pc' = "info"
    /\ UNCHANGED <<ft, cnf, tep, lines, config, lookup_table, root_name>>
    /\ UNCHANGED drvvars
    /\ UNCHANGED <<solver, stderr, outcome, sub, sub_root, tmp_ft_file, tmp_files, duration, remaining_s, workers, measures, weights, failing>>

NextInfo == GetInfo

SpecInfo == InitEnc /\ [][NextInfo]_vars

\* C15: info returns the number of basic events reachable from the root,
\* the number of gates of every kind (And, Or, Not, Xor, Vot) reachable from
\* the root, and the number of clauses of the Tseitin formula.
C15_InfoCountsReachable ==
    pc = "info" =>
        info = << Cardinality({ i \in Reachable(ft) : NodeAt(ft, i).kind = "be" }),
                  Cardinality({ i \in Reachable(ft) : is_gate(NodeAt(ft, i)) }),
                  Len(apply_tseitin(ft)) >>

(***************************************************************************)
(* Sub tree extraction and clone on the trees the normalizer produces.     *)
(***************************************************************************)
\* a clone that does not copy the flag of the tree
clone_without_flag(t) ==
    [nodes |-> t.nodes, root_id |-> t.root_id, node_counter |-> t.node_counter,
     negate_or |-> ~t.negate_or]

\* Clone for FaultTree: every field is copied
clone(t) ==
    [nodes |-> t.nodes, root_id |-> t.root_id, node_counter |-> t.node_counter,
     negate_or |-> t.negate_or]

SubtreeWithRoot ==
    /\ pc = "tree"
    /\ \E r \in NodeIds(ft) :
          /\ sub_root' = r
          /\ sub' = subtree_with_root(ft, r)
    /\ pc' = "sub"
    /\ UNCHANGED <<ft, cnf, tep, lines, config, lookup_table, root_name>>
    /\ UNCHANGED drvvars
    /\ UNCHANGED <<solver, stderr, outcome, info, tmp_ft_file, tmp_files, duration, remaining_s, workers, measures, weights, failing>>

CloneTree ==
    /\ pc = "tree"
    /\ sub' = clone(ft)
    /\ pc' = "cloned"
    /\ UNCHANGED <<ft, cnf, tep, lines, config, lookup_table, root_name>>
    /\ UNCHANGED drvvars
    /\ UNCHANGED <<solver, stderr, outcome, info, sub_root, tmp_ft_file, tmp_files, duration, remaining_s, workers, measures, weights, failing>>

NextSub == ReadFile \/ FillPlaceholders \/ ResolveRoot \/ SubtreeWithRoot \/ CloneTree

SpecSub == InitNorm /\ [][NextSub]_vars

Abs(l) == IF l < 0 THEN 0 - l ELSE l

\* node_counter is the number of stored nodes, the ids are 0..N-1, node i
\* is variable i+1, and the literals of the CNF and of the weights are in 1..N
WellNumbered(t) ==
    /\ get_count(t) = Len(t.nodes)
    /\ NodeIds(t) = 0..(get_count(t) - 1)
    /\ \A i \in NodeIds(t) : Atom(i) = i + 1
    /\ ~apply_tseitin_panics(t) =>
          \A c \in Range(apply_tseitin(t)) : \A l \in Range(c) : Abs(l) \in 1..get_count(t)
    /\ \A l \in DOMAIN get_weights(t) : Abs(l) \in 1..get_count(t)

\* C16: in every tree produced by parsing, k-of-n expansion, clone or sub
\* tree extraction, node_counter equals the number of stored nodes, the
\* NodeIds are 0..N-1, node i is literal i+1, and every literal of the
\* clauses and of the weights lies in 1..N.
C16_NodeCounterIsNodeCount ==
    /\ pc \in {"read", "filled"} => get_count(ft) = Len(ft.nodes)
    /\ pc \in {"tree", "sub", "cloned"} => WellNumbered(ft)
    /\ pc \in {"sub", "cloned"} => WellNumbered(sub)

\* a sub tree of at least three nodes was extracted from a tree in which a
\* 2of3 gate was expanded
C16_Witness ==
    /\ pc = "sub"
    /\ \E i \in 1..Len(lines) : lines[i].op = "of" /\ lines[i].k = 2 /\ lines[i].n = 3
    /\ Len(ft.nodes) > Len(lines)
    /\ Len(sub.nodes) >= 3
    /\ sub.nodes # ft.nodes

(***************************************************************************)
(* The root name under simplify.                                           *)
(***************************************************************************)
RECURSIVE last_toplevel(_, _)
\* the name of the last toplevel line of ls, or dflt when there is none
last_toplevel(ls, dflt) ==
    IF ls = <<>> THEN dflt
    ELSE last_toplevel(Tail(ls), IF Head(ls).t = "toplevel" THEN Head(ls).name ELSE dflt)

RecordedRoot == last_toplevel(lines, "System")

\* the declarations simplify rewrites: and/or/xor/k-of-n with one argument
SingleChildLines ==
    { i \in 1..Len(lines) : /\ lines[i].t = "gate"
                            /\ lines[i].op \in {"or", "and", "xor", "of"}
                            /\ Len(lines[i].args) = 1 }

SingleChildOf(name) ==
    lines[CHOOSE i \in SingleChildLines : lines[i].name = name].args[1]

IsSingleChild(name) == \E i \in SingleChildLines : lines[i].name = name

RECURSIVE ChainEndFrom(_, _)
\* the name at the end of the rewrite chain, "(cycle)" if there is no end
ChainEndFrom(name, fuel) ==
    IF ~IsSingleChild(name) THEN name
    ELSE IF fuel = 0 THEN "(cycle)"
    ELSE ChainEndFrom(SingleChildOf(name), fuel - 1)

ChainEnd == ChainEndFrom(RecordedRoot, Len(lines))

\* the recorded root name is a single-child gate whose chain ends at a
\* declared node, in a file without duplicate names read with simplify on
RootIsRewritten ==
    /\ config.simplify
    /\ ~DuplicateNames
    /\ IsSingleChild(RecordedRoot)
    /\ \E i \in DeclLines : lines[i].name = ChainEnd

\* C17: with simplify on, when the recorded root name (toplevel line or the
\* default System) names a single-child and/or/xor/k-of-n gate, the root
\* name that read_from_file resolves is the end of the gate's rewrite chain
\* and the final root_id is that node, in whatever order the toplevel line
\* and the gate declarations appear.
C17_RootFollowsRewriteChain ==
    RootIsRewritten =>
        /\ pc = "filled" => root_name = ChainEnd
        /\ Normalized => ft.root_id = lookup_table[ChainEnd]

(***************************************************************************)
(* Validation of <k>of<n> declarations.                                    *)
(***************************************************************************)
VotDecls == { i \in 1..Len(lines) : lines[i].t = "gate" /\ lines[i].op = "of" }

\* k < 1, k > n, or the number of arguments is not n
IllFormedVot(l) == l.k < 1 \/ l.k > l.n \/ Len(l.args) # l.n

\* C18: a <k>of<n> declaration with k < 1, k > n or a number of arguments
\* other than n is rejected fatally, with simplify on or off; an accepted
\* declaration becomes And(args) when k = n and Or(args) when k = 1.
C18_VotValidated ==
    Normalized =>
        \A i \in VotDecls :
            /\ ~IllFormedVot(lines[i])
            /\ (~DuplicateNames /\ Has(lookup_table, lines[i].name)) =>
                  LET node == NodeAt(ft, lookup_table[lines[i].name])
                  IN  /\ lines[i].k = lines[i].n =>
                            (node.kind = "and" /\ Len(node.args) = lines[i].n)
                      /\ (lines[i].k = 1 /\ lines[i].n > 1) =>
                            (node.kind = "or" /\ Len(node.args) = lines[i].n)

(***************************************************************************)
(* Shape of the k-of-n expansion.                                          *)
(***************************************************************************)
\* p and q hold the same elements the same number of times
SameBag(p, q) ==
    /\ Len(p) = Len(q)
    /\ \A v \in Range(p) \cup Range(q) :
          Count({ i \in 1..Len(p) : p[i] = v }) = Count({ i \in 1..Len(q) : q[i] = v })

\* the sets of size argument positions out of 1..n
PositionSubsets(n, size) == { S \in SUBSET (1..n) : Count(S) = size }

\* the NodeIds of the arguments of line l at the positions S, in order
ArgIdsAt(l, S) == [m \in 1..Count(S) |-> lookup_table[l.args[SortedSeq(S)[m]]]]

\* C19: the expansion of a <k>of<n> gate with 1 < k < n creates exactly one
\* auxiliary Or gate for each choice of n-k+1 of the n arguments and none
\* twice, each under a fresh NodeId after all declared nodes, and the gate
\* itself becomes the And of exactly these auxiliary gates.
C19_ExpansionCompleteNonRepeating ==
    (pc = "tree" /\ lines # <<>>) =>
        \A i \in ExpandedVots :
            LET l == lines[i]
                g == NodeAt(ft, lookup_table[l.name])
                aux == g.args
                Subs == PositionSubsets(l.n, l.n - l.k + 1)
            IN  /\ g.kind = "and"
                /\ Len(aux) = Count(Subs)
                /\ Count(Range(aux)) = Len(aux)
                /\ \A j \in 1..Len(aux) :
                      /\ NodeAt(ft, aux[j]).kind = "or"
                      /\ \A d \in DeclLines : Has(lookup_table, lines[d].name) =>
                                               lookup_table[lines[d].name] < aux[j]
                      /\ aux[j] \in NodeIds(ft)
                      /\ \E S \in Subs : SameBag(NodeAt(ft, aux[j]).args, ArgIdsAt(l, S))
                /\ \A S \in Subs :
                      Count({ j \in 1..Len(aux) :
                                SameBag(NodeAt(ft, aux[j]).args, ArgIdsAt(l, S)) })
                        = Count({ S2 \in Subs : SameBag(ArgIdsAt(l, S2), ArgIdsAt(l, S)) })

\* a 3of4 gate over four distinct basic events became the And of six Or
\* gates with two children each
C19_Witness ==
    /\ pc = "tree"
    /\ \E i \in ExpandedVots :
          /\ lines[i].k = 3 /\ lines[i].n = 4
          /\ Count(Range(lines[i].args)) = 4
          /\ Len(NodeAt(ft, lookup_table[lines[i].name]).args) = 6
          /\ \A c \in ChildSet(ft, lookup_table[lines[i].name]) :
                Len(NodeAt(ft, c).args) = 2

(***************************************************************************)
(* The sub tree against the part of the original it was extracted from.    *)
(***************************************************************************)
RECURSIVE IsCopyOf(_, _, _)
\* node c of sub is a copy of node v of ft, and so on through the children
\* of both, position by position; fuel bounds the descent on cyclic trees
IsCopyOf(v, c, fuel) ==
    LET node == NodeAt(ft, v)
        copy == NodeAt(sub, c)
    IN  /\ c \in NodeIds(sub)
        /\ [copy EXCEPT !.args = <<>>] = [node EXCEPT !.args = <<>>]
        /\ Len(copy.args) = Len(node.args)
        /\ fuel > 0 =>
              \A i \in 1..Len(node.args) : IsCopyOf(node.args[i], copy.args[i], fuel - 1)

\* C20: subtree_with_root(r) returns a tree whose root is NodeId 0, that
\* holds exactly one copy of each node reachable from r (as many nodes as
\* there are distinct reachable nodes, shared nodes included), and whose
\* child references lead to the copies of the original children.
C20_SubtreeOneCopyEach ==
    pc = "sub" =>
        /\ sub.root_id = 0
        /\ IsCopyOf(sub_root, 0, Len(ft.nodes))
        /\ Len(sub.nodes) = Count(ReachFrom(ft, {sub_root}))

(***************************************************************************)
(* The frame of replace_modules.                                           *)
(***************************************************************************)
\* C21: after replace_modules(module_ids) every NodeId of module_ids holds a
\* basic event with a discrete probability named repl_node_<id> (the id as
\* NodeId displays it), and every other node, the root_id, the node count
\* and the index of every node are as before.
C21_ReplaceModulesFrame ==
    [][ (pc = "modules" /\ pc' = "replaced") =>
           /\ \A id \in Range(module_ids) :
                 /\ NodeAt(ft', id).kind = "be"
                 /\ NodeAt(ft', id).method = "prob"
                 /\ NodeAt(ft', id).name = "repl_node_" \o ToString(Atom(id))
                 /\ NodeAt(ft', id) = repl_node(id, NodeAt(ft', id).value)
           /\ \A id \in NodeIds(ft) \ Range(module_ids) : NodeAt(ft', id) = NodeAt(ft, id)
           /\ ft'.root_id = ft.root_id
           /\ Len(ft'.nodes) = Len(ft.nodes)
           /\ get_count(ft') = get_count(ft)
           /\ ft'.negate_or = ft.negate_or ]_vars

\* three modules were replaced and a gate that is no module is still a gate
C21_Witness ==
    /\ pc = "replaced"
    /\ Len(module_ids) = 3
    /\ \A i \in 1..Len(module_ids) :
          NodeAt(ft, module_ids[i]) = repl_node(module_ids[i], NodeAt(ft, module_ids[i]).value)
    /\ is_gate(NodeAt(ft, ft.root_id))

(***************************************************************************)
(* Order of the module solves.                                             *)
(***************************************************************************)
ModuleSolves == { i \in 1..Len(solves) : solves[i].who = "module" }

\* C22: whenever the sub tree of a module M is extracted and solved, every
\* module nested strictly inside M has already been replaced in the shared
\* tree by its synthetic basic event.
C22_NestedModulesReplacedFirst ==
    pc \in {"replaced", "done"} =>
        \A i \in ModuleSolves :
            \A m \in Range(module_ids) \cap StrictDesc(solves[i].tree, solves[i].mod_id) :
                NodeAt(solves[i].tree, m).kind = "be"

(***************************************************************************)
(* The chunks of replace_modules.                                          *)
(***************************************************************************)
\* the module solves whose sub tree was extracted from the shared tree t
SolvesOn(t) == { i \in ModuleSolves : solves[i].tree = t }

\* C23: the module list is split into consecutive chunks of size
\* max(ceil(|modules| / num_threads), num_threads), this size is strictly
\* larger than num_threads, and each module id falls in exactly one chunk.
C23_ChunkSizeAboveThreads ==
    pc \in {"replaced", "done"} =>
        LET size == chunk_size(Len(module_ids), config.num_threads)
        IN  /\ size > config.num_threads
            /\ \A i \in ModuleSolves : Count(SolvesOn(solves[i].tree)) <= size
            /\ \A m \in Range(module_ids) :
                  Count({ i \in ModuleSolves : solves[i].mod_id = m }) = 1

(***************************************************************************)
(* The temporary CNF file of the file-based backends.                      *)
(***************************************************************************)
FileBased == {"SharpSAT-TD", "DMC"}

\* C24: for SharpSAT-TD and DMC the temporary CNF file written for a solver
\* call no longer exists once the call has returned successfully (empty
\* stderr).
C24_TmpFileRemovedOnSuccess ==
    (pc = "finished" /\ solver \in FileBased /\ outcome.kind = "ok") =>
        tmp_ft_file \notin tmp_files


\* C25: when DMC's run_model has returned, the timeout handed to dmc is the
\* original timeout minus the whole seconds measured for htb, it lies
\* between 0 and the original timeout, and the subtraction did not overflow
C25_RemainingTimeoutInRange ==
    (pc = "finished" /\ solver = "DMC") =>
        /\ outcome # SubOverflowPanic
        /\ duration <= config.timeout_s
        /\ remaining_s = u64(Max(config.timeout_s - duration, 0))
        /\ u64_le(remaining_s, u64(config.timeout_s))

\* the subtraction is exact whenever htb is measured within the timeout
C25_ExactWithinTimeout ==
    (pc = "finished" /\ solver = "DMC" /\ duration <= config.timeout_s) =>
        /\ outcome # SubOverflowPanic
        /\ remaining_s = u64(config.timeout_s - duration)
        /\ u64_le(remaining_s, u64(config.timeout_s))


(***************************************************************************)
(* importance_measures with its par_iter workers interleaved: one worker   *)
(* per element of be_list; a worker clones the base tree, runs measure_be  *)
(* on the clone (the event set to 1, a solve, the event set to 0, a solve) *)
(* and yields its entry; the entries are collected into a HashMap.         *)
(***************************************************************************)
MaxImpNodes == 4

\* be_lookup_table: a later node of the same name replaces an earlier one
be_lookup_table(t) ==
    [name \in { NodeAt(t, i).name : i \in BEs(t) } |->
        CHOOSE i \in BEs(t) :
            /\ NodeAt(t, i).name = name
            /\ \A j \in BEs(t) : NodeAt(t, j).name = name => j <= i]

\* be_list: the names of the basic events in the order of the nodes
be_list(t) == LET ids == SortedSeq(BEs(t))
              IN  [i \in 1..Len(ids) |-> NodeAt(t, ids[i]).name]

og_prob(kind, timepoint) ==
    IF kind.method = "prob" THEN kind.value ELSE ExpCdf(kind.value, timepoint)

\* the entry of the result for one basic event; the division by a true_tep
\* of 0 gives no number
measure_entry(w, true_tep) ==
    LET ib == RSub(w.pos_tep, w.neg_tep)
    IN  <<ib, RSub(w.pos_tep, true_tep),
          IF true_tep = RZero THEN "NaN or inf"
          ELSE RMul(ib, RDiv(w.og_prob, true_tep))>>

measure_solve(t, negate_or, w, phase) ==
    LET e == compute(t, negate_or, "measure").log[1]
    IN  [who |-> e.who, solver |-> e.solver, unit_neg |-> e.unit_neg,
         complemented |-> e.complemented, worker |-> w, phase |-> phase, tree |-> t]

ImpUnchanged ==
    UNCHANGED <<ft, cnf, lines, config, lookup_table, root_name, dfs_nodes, time,
                module_ids, mod_tep, solver, stderr, outcome, info, sub, sub_root,
                tmp_ft_file, tmp_files, duration, remaining_s, weights, failing>>

\* true_tep is solved and the workers are handed the elements of be_list
StartMeasures ==
    /\ pc = "tree"
    /\ tep' = compute(ft, config.negate_or, "measure").value
    /\ solves' = <<measure_solve(ft, config.negate_or, 0, "true_tep")>>
    /\ workers' = [i \in 1..Len(be_list(ft)) |->
                      [pc |-> "start", be_name |-> be_list(ft)[i], ft |-> EmptyTree,
                       og_prob |-> RZero, pos_tep |-> RZero, neg_tep |-> RZero]]
    /\ pc' = "measuring"
    /\ UNCHANGED measures
    /\ ImpUnchanged

\* let mut ft = self.clone()
WorkerClone(w) ==
    /\ pc = "measuring"
    /\ workers[w].pc = "start"
    /\ workers' = [workers EXCEPT ![w].ft = clone(ft), ![w].pc = "cloned"]
    /\ UNCHANGED <<pc, tep, solves, measures>>
    /\ ImpUnchanged

\* measure_be up to the first update_root
WorkerSetPos(w) ==
    /\ pc = "measuring"
    /\ workers[w].pc = "cloned"
    /\ LET name == workers[w].be_name
           nid == be_lookup_table(ft)[name]
       IN  workers' = [workers EXCEPT
                          ![w].og_prob = og_prob(NodeAt(workers[w].ft, nid), RZero),
                          ![w].ft = update_root(workers[w].ft,
                                                BasicEvent(name, "prob", ROne), nid),
                          ![w].pc = "pos"]
    /\ UNCHANGED <<pc, tep, solves, measures>>
    /\ ImpUnchanged

WorkerSolvePos(w) ==
    /\ pc = "measuring"
    /\ workers[w].pc = "pos"
    /\ workers' = [workers EXCEPT
                      ![w].pos_tep = compute(workers[w].ft, config.negate_or, "measure").value,
                      ![w].pc = "pos_solved"]
    /\ solves' = Append(solves, measure_solve(workers[w].ft, config.negate_or, w, "pos"))
    /\ UNCHANGED <<pc, tep, measures>>
    /\ ImpUnchanged

WorkerSetNeg(w) ==
    /\ pc = "measuring"
    /\ workers[w].pc = "pos_solved"
    /\ LET name == workers[w].be_name
           nid == be_lookup_table(ft)[name]
       IN  workers' = [workers EXCEPT
                          ![w].ft = update_root(workers[w].ft,
                                                BasicEvent(name, "prob", RZero), nid),
                          ![w].pc = "neg"]
    /\ UNCHANGED <<pc, tep, solves, measures>>
    /\ ImpUnchanged

WorkerSolveNeg(w) ==
    /\ pc = "measuring"
    /\ workers[w].pc = "neg"
    /\ workers' = [workers EXCEPT
                      ![w].neg_tep = compute(workers[w].ft, config.negate_or, "measure").value,
                      ![w].pc = "done"]
    /\ solves' = Append(solves, measure_solve(workers[w].ft, config.negate_or, w, "neg"))
    /\ UNCHANGED <<pc, tep, measures>>
    /\ ImpUnchanged

\* collect::<HashMap<..>>() and the map over its entries
CollectMeasures ==
    /\ pc = "measuring"
    /\ \A w \in DOMAIN workers : workers[w].pc = "done"
    /\ measures' = [name \in { workers[w].be_name : w \in DOMAIN workers } |->
                       LET w == CHOOSE v \in DOMAIN workers :
                                   /\ workers[v].be_name = name
                                   /\ \A u \in DOMAIN workers :
                                         workers[u].be_name = name => u <= v
                       IN  measure_entry(workers[w], tep)]
    /\ pc' = "measured"
    /\ UNCHANGED <<tep, solves, workers>>
    /\ ImpUnchanged

WorkerCloneStep == \E w \in DOMAIN workers : WorkerClone(w)
WorkerSetPosStep == \E w \in DOMAIN workers : WorkerSetPos(w)
WorkerSolvePosStep == \E w \in DOMAIN workers : WorkerSolvePos(w)
WorkerSetNegStep == \E w \in DOMAIN workers : WorkerSetNeg(w)
WorkerSolveNegStep == \E w \in DOMAIN workers : WorkerSolveNeg(w)

NextImp ==
    \/ StartMeasures
    \/ WorkerCloneStep
    \/ WorkerSetPosStep
    \/ WorkerSolvePosStep
    \/ WorkerSetNegStep
    \/ WorkerSolveNegStep
    \/ CollectMeasures

InitImp ==
    /\ pc = "tree"
    /\ config \in [simplify : {FALSE}, negate_or : BOOLEAN, num_threads : {MaxThreads}]
    /\ \E ns \in DrvNodeSeqs(0, MaxImpNodes) : ft = FaultTree(ns, 0, config.negate_or)
    /\ cnf = <<>>
    /\ tep = RZero
    /\ lines = <<>>
    /\ lookup_table = EmptyMap
    /\ root_name = ""
    /\ InitDrvVars
    /\ InitRunVars

SpecImp == InitImp /\ [][NextImp]_vars

\* the clone of worker w differs from the base tree exactly in the node of
\* its basic event, which is that event with the probability value
OnlyEventDiffers(w, value) ==
    LET nid == be_lookup_table(ft)[workers[w].be_name]
    IN  /\ NodeAt(ft, nid).kind = "be"
        /\ NodeAt(ft, nid).name = workers[w].be_name
        /\ NodeAt(workers[w].ft, nid) = BasicEvent(workers[w].be_name, "prob", value)
        /\ Len(workers[w].ft.nodes) = Len(ft.nodes)
        /\ \A id \in NodeIds(ft) \ {nid} : NodeAt(workers[w].ft, id) = NodeAt(ft, id)
        /\ workers[w].ft.root_id = ft.root_id
        /\ workers[w].ft.negate_or = ft.negate_or

WorkersIsolated ==
    /\ \A w \in DOMAIN workers :
          /\ workers[w].pc = "cloned" => workers[w].ft = ft
          /\ workers[w].pc \in {"pos", "pos_solved"} => OnlyEventDiffers(w, ROne)
          /\ workers[w].pc \in {"neg", "done"} => OnlyEventDiffers(w, RZero)
    /\ \A i \in 1..Len(solves) :
          solves[i].phase # "true_tep" =>
              LET w == solves[i].worker
                  nid == be_lookup_table(ft)[workers[w].be_name]
                  value == IF solves[i].phase = "pos" THEN ROne ELSE RZero
              IN  solves[i].tree =
                      update_root(ft, BasicEvent(workers[w].be_name, "prob", value), nid)

OneEntryPerEvent ==
    pc = "measured" =>
        /\ DOMAIN measures = { NodeAt(ft, i).name : i \in BEs(ft) }
        /\ Count(DOMAIN measures) = Count(BEs(ft))
        /\ \A i \in BEs(ft) :
              LET pos == update_root(ft, BasicEvent(NodeAt(ft, i).name, "prob", ROne), i)
                  neg == update_root(ft, BasicEvent(NodeAt(ft, i).name, "prob", RZero), i)
              IN  measures[NodeAt(ft, i).name][1] =
                      RSub(compute(pos, config.negate_or, "measure").value,
                           compute(neg, config.negate_or, "measure").value)

\* C26: importance_measures never changes the base tree; in every
\* interleaving of the workers the tree a worker solves is the base tree
\* with exactly the node of its basic event set to probability 1, then 0;
\* the result has exactly one entry per basic-event name
C26_WorkersOnPrivateClones ==
    /\ pc \in {"measuring", "measured"} => ft = solves[1].tree
    /\ WorkersIsolated
    /\ OneEntryPerEvent

\* two workers are in the middle of measure_be at the same time, one with
\* its event at 1 and one with its event at 0, and a third has finished
C26_Witness ==
    /\ pc = "measuring"
    /\ \E u, v, w \in DOMAIN workers :
          /\ workers[u].pc = "pos_solved"
          /\ workers[v].pc = "neg"
          /\ workers[w].pc = "done"
          /\ workers[u].ft # workers[v].ft
          /\ workers[u].ft # ft

C26_Collected ==
    /\ pc = "measured"
    /\ Count(DOMAIN measures) = 3


\* the node a gate clause belongs to: every clause of tseitin_and, _or, _xor
\* and _not holds the variable of its gate, and in the encoder's trees the
\* children of a gate have larger NodeIds than the gate
ClauseOwner(clause) ==
    (CHOOSE v \in { Abs(clause[i]) : i \in 1..Len(clause) } :
        \A i \in 1..Len(clause) : v <= Abs(clause[i])) - 1

ClausesOf(f, g) == [i \in { j \in 1..Len(f) : ClauseOwner(f[j]) = g } |-> f[i]]

\* C27: apply_tseitin emits the unit clause of the root first, then the
\* clauses of the gates in increasing NodeId order; a basic event has no
\* clause, and every gate has its clauses whether or not the root reaches it
C27_ClauseOrder ==
    pc = "cnf" =>
        LET gate_clauses == Tail(cnf)
        IN  /\ Head(cnf) \in { <<Atom(ft.root_id)>>, <<negate(Atom(ft.root_id))>> }
            /\ \A i, j \in 1..Len(gate_clauses) :
                  i < j => ClauseOwner(gate_clauses[i]) <= ClauseOwner(gate_clauses[j])
            /\ \A i \in 1..Len(gate_clauses) :
                  /\ ClauseOwner(gate_clauses[i]) \in NodeIds(ft)
                  /\ is_gate(NodeAt(ft, ClauseOwner(gate_clauses[i])))
            /\ \A g \in NodeIds(ft) :
                  is_gate(NodeAt(ft, g)) =>
                      /\ DOMAIN ClausesOf(gate_clauses, g) # {}
                      /\ Count(DOMAIN ClausesOf(gate_clauses, g))
                             = Len(tseitin_transformation(NodeAt(ft, g), g))
                      /\ { gate_clauses[i] : i \in DOMAIN ClausesOf(gate_clauses, g) }
                             = Range(tseitin_transformation(NodeAt(ft, g), g))

\* the root is node 1 and node 0 is a gate the root does not reach; a
\* basic event lies between two gates
C27_Witness ==
    /\ pc = "cnf"
    /\ ft.root_id = 1
    /\ is_gate(NodeAt(ft, 0))
    /\ 0 \notin Reachable(ft)
    /\ NodeAt(ft, 1).kind = "xor"
    /\ NodeAt(ft, 2).kind = "be"


(***************************************************************************)
(* implicit_formula: the clauses of apply_tseitin and the weight lines of  *)
(* get_weights.  A weight line `<weight_start> <lit> <w> 0` is the record  *)
(* [lit, w]; the two lines one format! writes are two records.             *)
(***************************************************************************)
MaxDumpNodes == 3

\* method.to_lowercase() on the spellings of the inputs
method_to_lowercase(method) ==
    CASE method \in {"prob", "Prob", "PROB"} -> "prob"
      [] method \in {"lambda", "Lambda", "LAMBDA"} -> "lambda"
      [] OTHER -> method

\* the ids of the basic events
used_ids(t) == { i \in 0..(Len(t.nodes) - 1) : t.nodes[i + 1].kind = "be" }

weight_pair(i, pos, neg) == << [lit |-> i + 1, w |-> pos], [lit |-> 0 - (i + 1), w |-> neg] >>

\* weight 1 for every id of 0..n_vars, basic event or not
gate_weights_unfiltered(t) ==
    Flatten([v \in 1..get_count(t) |-> weight_pair(v - 1, ROne, ROne)])

gate_weights(t) ==
    Flatten([v \in 1..get_count(t) |->
                IF (v - 1) \notin used_ids(t) THEN weight_pair(v - 1, ROne, ROne)
                ELSE <<>>])

unsupported_distribution(t) ==
    \E i \in used_ids(t) :
        method_to_lowercase(t.nodes[i + 1].method) \notin {"prob", "lambda"}

\* 1.0 - prob for prob = 1.0 - (-value * timepoint).exp()
ExpSurvival(lambda, timepoint) ==
    IF RMul(lambda, timepoint) = RZero THEN ROne
    ELSE <<"exp(-x)", RMul(lambda, timepoint)>>

be_weights(t, timepoint) ==
    Flatten([v \in 1..Len(t.nodes) |->
                LET n == t.nodes[v]
                IN  IF n.kind # "be" THEN <<>>
                    ELSE IF method_to_lowercase(n.method) = "prob"
                    THEN weight_pair(v - 1, n.value, RSub(ROne, n.value))
                    ELSE weight_pair(v - 1, ExpCdf(n.value, timepoint),
                                     ExpSurvival(n.value, timepoint))])

\* the weights as implicit_formula joins them: be_weights, then gate_weights
implicit_formula_weights(t, timepoint) == be_weights(t, timepoint) \o gate_weights(t)

DumpMethods == {"prob", "PROB", "lambda", "exp"}

DumpNodeChoices(i, N) ==
    { BasicEvent(BENames[i + 1], m, BEProb(i)) : m \in DumpMethods }
    \cup { And(q) : q \in DrvChildLists(i, N) }
    \cup { Or(q) : q \in DrvChildLists(i, N) }

RECURSIVE DumpNodeSeqs(_, _)
DumpNodeSeqs(i, N) ==
    IF i = N THEN { <<>> }
    ELSE { <<c>> \o rest : c \in DumpNodeChoices(i, N), rest \in DumpNodeSeqs(i + 1, N) }

DumpUnchanged ==
    UNCHANGED <<ft, tep, lines, config, lookup_table, root_name, dfs_nodes, time,
                module_ids, solves, mod_tep, solver, stderr, outcome, info, sub,
                sub_root, tmp_ft_file, tmp_files, duration, remaining_s, workers,
                measures, failing>>

DumpCnf ==
    /\ pc = "tree"
    /\ ~unsupported_distribution(ft)
    /\ cnf' = apply_tseitin(ft)
    /\ weights' = implicit_formula_weights(ft, config.timepoint)
    /\ pc' = "dumped"
    /\ DumpUnchanged

\* panic!("Unsupported distribution of Basic Events. ...")
DumpCnfPanics ==
    /\ pc = "tree"
    /\ unsupported_distribution(ft)
    /\ pc' = "panic"
    /\ UNCHANGED <<cnf, weights>>
    /\ DumpUnchanged

NextDump == DumpCnf \/ DumpCnfPanics

InitDump ==
    /\ pc = "tree"
    /\ config \in [simplify : {FALSE}, negate_or : BOOLEAN, timepoint : Timepoints]
    /\ \E ns \in DumpNodeSeqs(0, MaxDumpNodes) : ft = FaultTree(ns, 0, config.negate_or)
    /\ cnf = <<>>
    /\ tep = RZero
    /\ lines = <<>>
    /\ lookup_table = EmptyMap
    /\ root_name = ""
    /\ InitDrvVars
    /\ InitRunVars

SpecDump == InitDump /\ [][NextDump]_vars

LinesFor(lit) == { i \in 1..Len(weights) : weights[i].lit = lit }
TheLine(lit) == weights[CHOOSE i \in LinesFor(lit) : TRUE]

\* C28: for every variable v of 1..N there is exactly one weight line for
\* v and exactly one for -v; a gate weighs 1 on both, a basic event weighs
\* its probability at the timepoint on v and 1 minus that on -v; no line is
\* about another variable
C28_OneWeightPerLiteral ==
    pc = "dumped" =>
        /\ \A i \in 1..Len(weights) : Abs(weights[i].lit) \in 1..get_count(ft)
        /\ \A v \in 1..get_count(ft) :
              LET node == NodeAt(ft, v - 1)
                  exponent == RMul(node.value, config.timepoint)
              IN  /\ Count(LinesFor(v)) = 1
                  /\ Count(LinesFor(0 - v)) = 1
                  /\ is_gate(node) =>
                        TheLine(v).w = ROne /\ TheLine(0 - v).w = ROne
                  /\ (node.kind = "be" /\ node.method \in {"prob", "PROB"}) =>
                        /\ TheLine(v).w = node.value
                        /\ TheLine(0 - v).w = RSub(ROne, node.value)
                  /\ (node.kind = "be" /\ node.method = "lambda" /\ exponent = RZero) =>
                        TheLine(v).w = RZero /\ TheLine(0 - v).w = ROne
                  /\ (node.kind = "be" /\ node.method = "lambda" /\ exponent # RZero) =>
                        /\ TheLine(v).w = <<"1-exp(-x)", exponent>>
                        /\ TheLine(0 - v).w = <<"exp(-x)", exponent>>

\* a gate over an exponential event and a discrete event, at a timepoint
\* after 0
C28_Witness ==
    /\ pc = "dumped"
    /\ config.timepoint # RZero
    /\ NodeAt(ft, 0).kind = "or"
    /\ NodeAt(ft, 1).kind = "be" /\ NodeAt(ft, 1).method = "lambda"
    /\ NodeAt(ft, 2).kind = "be" /\ NodeAt(ft, 2).method = "PROB"
    /\ Len(weights) = 6


(***************************************************************************)
(* replace_modules when solves fail.  Solver::compute panics on the Err of *)
(* run_model; the panic of a worker leaves the par_iter of its chunk       *)
(* through collect(), so the loop that applies the chunk's replacements is *)
(* not reached and replace_modules unwinds.                                *)
(***************************************************************************)
\* every chunk is solved and applied, whatever fails
replace_chunks_ignoring_failures(r, cs, negate_or, fails) ==
    [ft |-> replace_chunks(r, cs, negate_or).ft,
     log |-> replace_chunks(r, cs, negate_or).log,
     panicked |-> \E i \in 1..Len(cs) : Range(cs[i]) \cap fails # {},
     chunk |-> <<>>]

RECURSIVE replace_chunks_until_panic(_, _, _, _)
\* [ft, log, panicked, chunk]: the chunks before the first chunk with a
\* failing module are solved and applied; chunk is the chunk that panicked
replace_chunks_until_panic(r, cs, negate_or, fails) ==
    IF cs = <<>> THEN [ft |-> r.ft, log |-> r.log, panicked |-> FALSE, chunk |-> <<>>]
    ELSE IF Range(Head(cs)) \cap fails # {}
    THEN [ft |-> r.ft, log |-> r.log, panicked |-> TRUE, chunk |-> Head(cs)]
    ELSE replace_chunks_until_panic(replace_chunks(r, <<Head(cs)>>, negate_or),
                                    Tail(cs), negate_or, fails)

\* the solves of the chunk that panicked which ran to their end: the
\* workers of the other modules of the chunk may or may not get that far
partial_log(t, chunk, ran, negate_or) ==
    LET ids == SelectSeq(chunk, LAMBDA m : m \in ran)
    IN  [i \in 1..Len(ids) |->
            module_solve(compute(subtree_with_root(t, ids[i]), negate_or, "module").log[1],
                         ids[i], t)]

\* module_ids.reverse() followed by replace_modules, with the solves of
\* the modules of fails failing
ReplaceModulesWithFailures ==
    /\ pc = "modules"
    /\ \E fails \in SUBSET Range(module_ids) :
          LET r == replace_chunks_until_panic(
                       [ft |-> ft, log |-> <<>>],
                       chunks(Reverse(module_ids),
                              chunk_size(Len(module_ids), config.num_threads)),
                       config.negate_or, fails)
          IN  /\ failing' = fails
              /\ ft' = r.ft
              /\ \E ran \in SUBSET (Range(r.chunk) \ fails) :
                    solves' = solves \o r.log
                                  \o partial_log(r.ft, r.chunk, ran, config.negate_or)
              /\ pc' = IF r.panicked THEN "panic" ELSE "replaced"
    /\ module_ids' = Reverse(module_ids)
    /\ UNCHANGED <<cnf, tep, lines, config, lookup_table, root_name,
                   dfs_nodes, time, mod_tep>>
    /\ UNCHANGED <<solver, stderr, outcome, info, sub, sub_root, tmp_ft_file, tmp_files,
                   duration, remaining_s, workers, measures, weights>>

NextFail == GetModules \/ ReplaceModulesWithFailures

SpecFail == InitDrv /\ [][NextFail]_vars

\* the chunks replace_modules was working through, and the first of them
\* that holds a module whose solve fails
ChunksOfRun == chunks(module_ids, chunk_size(Len(module_ids), config.num_threads))
FailedChunks == { i \in 1..Len(ChunksOfRun) : Range(ChunksOfRun[i]) \cap failing # {} }
FirstFailedChunk == CHOOSE i \in FailedChunks : \A j \in FailedChunks : i <= j

IsReplaced(id) == NodeAt(ft, id).kind = "be" /\ NodeAt(ft, id).method = "prob"
                     /\ NodeAt(ft, id).name = "repl_node_" \o ToString(id + 1)

\* C29: when the solve of a module fails, replace_modules aborts; the
\* modules of the chunks before the chunk of the first failure are
\* replaced, and no module of that chunk or of a later chunk is
C29_FailedChunkNotApplied ==
    /\ (pc \in {"panic", "replaced"} /\ failing # {}) => pc = "panic"
    /\ pc = "panic" =>
          /\ failing # {}
          /\ \A i \in 1..Len(ChunksOfRun) :
                \A m \in Range(ChunksOfRun[i]) :
                    /\ i < FirstFailedChunk => IsReplaced(m)
                    /\ i >= FirstFailedChunk => is_gate(NodeAt(ft, m))
          /\ \A i \in 1..Len(solves) : solves[i].mod_id \notin failing

\* the second chunk fails after the first chunk was applied
C29_Witness ==
    /\ pc = "panic"
    /\ Len(ChunksOfRun) = 2
    /\ FirstFailedChunk = 2
    /\ \A m \in Range(ChunksOfRun[1]) : IsReplaced(m)
    /\ \E m \in Range(ChunksOfRun[2]) : is_gate(NodeAt(ft, m))

\* the first of two chunks fails: one module of it fails, the solve of the
\* other one ran to its end, and neither is replaced
C29_FirstChunkFails ==
    /\ pc = "panic"
    /\ Len(ChunksOfRun) = 2
    /\ FirstFailedChunk = 1
    /\ Len(solves) = 1


\* the nodes the root reaches that have children
ReachableGates(t) == { g \in Reachable(t) : children(NodeAt(t, g)) # <<>> }

\* the visits the first DFS makes because of the gates of S: one per child
\* reference and the visit that comes back to the gate
RECURSIVE GateVisits(_, _)
GateVisits(t, S) ==
    IF S = {} THEN 0
    ELSE LET g == CHOOSE x \in S : TRUE
         IN  Len(children(NodeAt(t, g))) + 1 + GateVisits(t, S \ {g})

\* C30: on every DAG both passes end; each pass runs the loop over the
\* children of every reachable gate exactly once; the clock ends at
\* 1 + the sum over the reachable gates of (child references + 1); a
\* reachable gate has t_first < t_second <= t_last and a reachable leaf
\* t_first = t_second <= t_last
C30_DfsVisitsAndTimes ==
    pc = "modules" =>
        /\ time = 1 + GateVisits(ft, ReachableGates(ft))
        /\ \A g \in ReachableGates(ft) :
              /\ dfs_nodes[g + 1].fst_expanded = 1
              /\ dfs_nodes[g + 1].snd_expanded = 1
              /\ 1 <= dfs_nodes[g + 1].t_fst_visit
              /\ dfs_nodes[g + 1].t_fst_visit < dfs_nodes[g + 1].t_snd_visit
              /\ dfs_nodes[g + 1].t_snd_visit <= dfs_nodes[g + 1].t_lst_visit
              /\ dfs_nodes[g + 1].t_lst_visit <= time
        /\ \A l \in Reachable(ft) \ ReachableGates(ft) :
              /\ dfs_nodes[l + 1].fst_expanded = 0
              /\ 1 <= dfs_nodes[l + 1].t_fst_visit
              /\ dfs_nodes[l + 1].t_fst_visit = dfs_nodes[l + 1].t_snd_visit
              /\ dfs_nodes[l + 1].t_snd_visit <= dfs_nodes[l + 1].t_lst_visit
              /\ dfs_nodes[l + 1].t_lst_visit <= time
        /\ \A u \in NodeIds(ft) \ Reachable(ft) : dfs_nodes[u + 1] = DFSNode

\* a gate with two parents is visited again after its second visit, a leaf
\* is shared too, and a node is out of reach of the root
C30_Witness ==
    /\ pc = "modules"
    /\ \E g \in ReachableGates(ft) :
          dfs_nodes[g + 1].t_snd_visit < dfs_nodes[g + 1].t_lst_visit
    /\ \E l \in Reachable(ft) \ ReachableGates(ft) :
          dfs_nodes[l + 1].t_snd_visit < dfs_nodes[l + 1].t_lst_visit
    /\ NodeIds(ft) \ Reachable(ft) # {}

=============================================================================
